---- MODULE Spec2Model ----
(***************************************************************************)
(* Model of the SSIP client library: the line writer over a buffered,      *)
(* possibly non-blocking stream, the request encoder, the queued client,   *)
(* the frame parser and the response decoder.                              *)
(*                                                                         *)
(* Text is modelled as sequences of one-character strings, so that the     *)
(* parsing and formatting functions are computed character by character.   *)
(* A byte handed to the writer is a record [ch, rq]: the character and the *)
(* ordinal of the push that produced it (0 when not queued).               *)
(***************************************************************************)
EXTENDS Integers, Sequences, FiniteSets, TLC

VARIABLES
    requests,    \* QueuedClient.requests: VecDeque<Request>
    output,      \* Client.output: bytes held by the BufWriter
    wire,        \* bytes the transport has accepted from the client, in order
    sockFree,    \* bytes the non-blocking transport accepts before would-block
    nonblocking, \* stream mode of the connection
    result,      \* value returned by the latest operation of the client
    pushCount,   \* number of push calls so far
    blocked,     \* a send_next returned NotReady and no writable event since
    everBlocked, \* some send_next has returned NotReady
    lastOp,      \* name of the latest operation
    input,       \* bytes written by the server and not yet read by the client
    afterSsip,   \* the latest receive before the latest step returned an Ssip error
    panicked,    \* the client thread panicked
    inflight,    \* frames written by the server and not yet received
    answered,    \* number of command lines the server has answered
    args,        \* arguments of the latest operation of the client
    pc           \* position of the driver in the speak exchange

vars == <<requests, output, wire, sockFree, nonblocking, result, pushCount,
          blocked, everBlocked, lastOp, input, afterSsip, panicked, inflight, answered, args, pc>>

writeVars == <<output, wire, sockFree>>
readVars == <<input, afterSsip, panicked, inflight, answered>>
queueVars == <<requests, pushCount, blocked, everBlocked>>
callVars == <<args, pc>>

----------------------------------------------------------------------------
(* Bounds *)

MaxPush == 3        \* pushes per behaviour
BufCap == 8         \* capacity of the BufWriter (scaled down)
SockCap == 8        \* capacity of the transport's send buffer (scaled down)
MaxInflight == 2    \* frames the server may have written ahead of the client
MaxSends == 3       \* sends of the blocking client per behaviour
MaxData == 2        \* sends of speak data per behaviour
MaxLines == 2       \* text lines in one send of speak data
MaxPending == 10    \* bytes arrived and unread on the non-blocking stream
MaxCont == 2        \* continuation lines of a frame given to the frame parser
MaxVoices == 2      \* lines of a voice list given to parse_typed_lines
MaxPayload == 3     \* continuation lines given to a payload parser

----------------------------------------------------------------------------
(* Text helpers *)

Min(a, b) == IF a < b THEN a ELSE b
Max(a, b) == IF a > b THEN a ELSE b

CR == "\r"
LF == "\n"
CRLF == <<CR, LF>>

Digits == <<"0", "1", "2", "3", "4", "5", "6", "7", "8", "9">>

IsDigit(c) == \E i \in 1..10 : Digits[i] = c

DigitVal(c) == (CHOOSE i \in 1..10 : Digits[i] = c) - 1

RECURSIVE NatToChars(_)
NatToChars(n) ==
    IF n < 10 THEN <<Digits[n + 1]>>
    ELSE NatToChars(n \div 10) \o <<Digits[(n % 10) + 1]>>

\* Display of an integer: optional minus sign and decimal digits.
IntToChars(n) == IF n < 0 THEN <<"-">> \o NatToChars(0 - n) ELSE NatToChars(n)

RECURSIVE Concat(_)
Concat(seqs) == IF seqs = <<>> THEN <<>> ELSE Head(seqs) \o Concat(Tail(seqs))

StartsWith(s, p) == Len(s) >= Len(p) /\ SubSeq(s, 1, Len(p)) = p

Drop(s, n) == SubSeq(s, n + 1, Len(s))

Tag(chars, rq) == [i \in 1..Len(chars) |-> [ch |-> chars[i], rq |-> rq]]

Chars(bytes) == [i \in 1..Len(bytes) |-> bytes[i].ch]

----------------------------------------------------------------------------
(* Wire tokens of the domain types *)

T_SPEAK == <<"S", "P", "E", "A", "K">>
T_QUIT == <<"Q", "U", "I", "T">>
T_STOP == <<"S", "T", "O", "P", " ">>
T_CANCEL == <<"C", "A", "N", "C", "E", "L", " ">>
T_PAUSE == <<"P", "A", "U", "S", "E", " ">>
T_RESUME == <<"R", "E", "S", "U", "M", "E", " ">>
T_SET == <<"S", "E", "T", " ">>
T_RATE == <<" ", "R", "A", "T", "E", " ">>
T_PITCH == <<" ", "P", "I", "T", "C", "H", " ">>
T_VOLUME == <<" ", "V", "O", "L", "U", "M", "E", " ">>
T_LANGUAGE == <<" ", "L", "A", "N", "G", "U", "A", "G", "E", " ">>
T_GET_RATE == <<"G", "E", "T", " ", "R", "A", "T", "E">>
T_GET_OUTPUT_MODULE ==
    <<"G", "E", "T", " ", "O", "U", "T", "P", "U", "T", "_", "M", "O", "D", "U", "L", "E">>
T_SET_CLIENT_NAME ==
    <<"S", "E", "T", " ", "s", "e", "l", "f", " ",
      "C", "L", "I", "E", "N", "T", "_", "N", "A", "M", "E", " ">>
T_self == <<"s", "e", "l", "f">>
T_all == <<"a", "l", "l">>
END_OF_DATA == <<".">>

\* Display of MessageScope and of ClientScope: self, all or the numeric id.
ScopeToken(scope) ==
    CASE scope[1] \in {"Last", "Current"} -> T_self
      [] scope[1] = "All" -> T_all
      [] OTHER -> IntToChars(scope[2])

----------------------------------------------------------------------------
(* The buffered writer over the transport.  A writer state is a record      *)
(* [buf, wire, free, nb, err]: the BufWriter's pending bytes, the bytes the *)
(* transport has accepted, the room left in the transport, whether the     *)
(* stream is non-blocking, and the outcome "Ok" or "WouldBlock".           *)

\* write(2) on the stream: a blocking stream takes everything, a
\* non-blocking one takes what fits and would-block when nothing fits.
Accepted(w, data) == IF w.nb THEN Min(Len(data), w.free) ELSE Len(data)

\* Write::write_all on the stream itself: bytes that do not fit are dropped
\* with the WouldBlock error.
InnerWriteAll(w, data) ==
    LET n == Accepted(w, data) IN
    [w EXCEPT !.wire = w.wire \o SubSeq(data, 1, n),
              !.free = IF w.nb THEN w.free - n ELSE w.free,
              !.err = IF n < Len(data) THEN "WouldBlock" ELSE "Ok"]

\* BufWriter::flush_buf: the accepted prefix leaves the buffer, the rest stays.
FlushBuf(w) ==
    LET n == Accepted(w, w.buf) IN
    [w EXCEPT !.wire = w.wire \o SubSeq(w.buf, 1, n),
              !.buf = Drop(w.buf, n),
              !.free = IF w.nb THEN w.free - n ELSE w.free,
              !.err = IF n < Len(w.buf) THEN "WouldBlock" ELSE "Ok"]

\* BufWriter::write_all.
BufWriteAll(w, data) ==
    IF Len(data) < BufCap - Len(w.buf)
    THEN [w EXCEPT !.buf = w.buf \o data]
    ELSE LET w1 == IF Len(data) > BufCap - Len(w.buf) THEN FlushBuf(w) ELSE w IN
         IF w1.err # "Ok" THEN w1
         ELSE IF Len(data) >= BufCap THEN InnerWriteAll(w1, data)
         ELSE [w1 EXCEPT !.buf = w1.buf \o data]

\* One iteration of write_lines: the line, then CRLF.
WriteOneLine(w, line, rq) ==
    LET w1 == BufWriteAll(w, Tag(line, rq)) IN
    IF w1.err # "Ok" THEN w1 ELSE BufWriteAll(w1, Tag(CRLF, rq))

RECURSIVE write_lines(_, _, _)
write_lines(w, lines, rq) ==
    IF lines = <<>> \/ w.err # "Ok" THEN w
    ELSE write_lines(WriteOneLine(w, Head(lines), rq), Tail(lines), rq)

\* Lines written and left in the buffer.
write_lines_only(w, lines, rq) == write_lines(w, lines, rq)

flush_lines(w, lines, rq) ==
    LET w1 == write_lines(w, lines, rq) IN
    IF w1.err # "Ok" THEN w1 ELSE FlushBuf(w1)

\* impl Display for Priority
DisplayPriority(value) ==
    CASE value = "Progress" -> <<"i", "m", "p", "o", "r", "t", "a", "n", "t">>
      [] value = "Notification" -> <<"n", "o", "t", "i", "f", "i", "c", "a", "t", "i",
          "o", "n">>
      [] value = "Message" -> <<"m", "e", "s", "s", "a", "g", "e">>
      [] value = "Text" -> <<"t", "e", "x", "t">>
      [] value = "Important" -> <<"m", "e", "s", "s", "a", "g", "e">>

\* impl Display for PunctuationMode
DisplayPunctuationMode(value) ==
    CASE value = "None" -> <<"n", "o", "n", "e">>
      [] value = "Some" -> <<"s", "o", "m", "e">>
      [] value = "Most" -> <<"m", "o", "s", "t">>
      [] value = "All" -> <<"a", "l", "l">>

\* impl Display for CapitalLettersRecognitionMode
DisplayCapitalLettersRecognitionMode(value) ==
    CASE value = "None" -> <<"n", "o", "n", "e">>
      [] value = "Spell" -> <<"s", "p", "e", "l", "l">>
      [] value = "Icon" -> <<"i", "c", "o", "n">>

\* impl Display for KeyName
DisplayKeyName(value) ==
    CASE value = "Space" -> <<"s", "p", "a", "c", "e">>
      [] value = "Underscore" -> <<"u", "n", "d", "e", "r", "s", "c", "o", "r", "e">>
      [] value = "DoubleQuote" -> <<"d", "o", "u", "b", "l", "e", "-", "q", "u", "o",
          "t", "e">>
      [] value = "Alt" -> <<"a", "l", "t">>
      [] value = "Control" -> <<"c", "o", "n", "t", "r", "o", "l">>
      [] value = "Hyper" -> <<"h", "y", "p", "e", "r">>
      [] value = "Meta" -> <<"m", "e", "t", "a">>
      [] value = "Shift" -> <<"s", "h", "i", "f", "t">>
      [] value = "Super" -> <<"s", "u", "p", "e", "r">>
      [] value = "Backspace" -> <<"b", "a", "c", "k", "s", "p", "a", "c", "e">>
      [] value = "Break" -> <<"b", "r", "e", "a", "k">>
      [] value = "Delete" -> <<"d", "e", "l", "e", "t", "e">>
      [] value = "Down" -> <<"d", "o", "w", "n">>
      [] value = "End" -> <<"e", "n", "d">>
      [] value = "Enter" -> <<"e", "n", "t", "e", "r">>
      [] value = "Escape" -> <<"e", "s", "c", "a", "p", "e">>
      [] value = "F1" -> <<"f", "1">>
      [] value = "F2" -> <<"f", "2">>
      [] value = "F3" -> <<"f", "3">>
      [] value = "F4" -> <<"f", "4">>
      [] value = "F5" -> <<"f", "5">>
      [] value = "F6" -> <<"f", "6">>
      [] value = "F7" -> <<"f", "7">>
      [] value = "F8" -> <<"f", "8">>
      [] value = "F9" -> <<"f", "9">>
      [] value = "F10" -> <<"f", "1", "0">>
      [] value = "F11" -> <<"f", "1", "1">>
      [] value = "F12" -> <<"f", "1", "2">>
      [] value = "F13" -> <<"f", "1", "3">>
      [] value = "F14" -> <<"f", "1", "4">>
      [] value = "F15" -> <<"f", "1", "5">>
      [] value = "F16" -> <<"f", "1", "6">>
      [] value = "F17" -> <<"f", "1", "7">>
      [] value = "F18" -> <<"f", "1", "8">>
      [] value = "F19" -> <<"f", "1", "9">>
      [] value = "F20" -> <<"f", "2", "0">>
      [] value = "F21" -> <<"f", "2", "1">>
      [] value = "F22" -> <<"f", "2", "2">>
      [] value = "F23" -> <<"f", "2", "3">>
      [] value = "F24" -> <<"f", "2", "4">>
      [] value = "Home" -> <<"h", "o", "m", "e">>
      [] value = "Insert" -> <<"i", "n", "s", "e", "r", "t">>
      [] value = "KpMultiply" -> <<"k", "p", "-", "*">>
      [] value = "KpPlus" -> <<"k", "p", "-", "+">>
      [] value = "KpMinus" -> <<"k", "p", "-", "-">>
      [] value = "KpDot" -> <<"k", "p", "-", ".">>
      [] value = "KpDivide" -> <<"k", "p", "-", "/">>
      [] value = "Kp0" -> <<"k", "p", "-", "0">>
      [] value = "Kp1" -> <<"k", "p", "-", "1">>
      [] value = "Kp2" -> <<"k", "p", "-", "2">>
      [] value = "Kp3" -> <<"k", "p", "-", "3">>
      [] value = "Kp4" -> <<"k", "p", "-", "4">>
      [] value = "Kp5" -> <<"k", "p", "-", "5">>
      [] value = "Kp6" -> <<"k", "p", "-", "6">>
      [] value = "Kp7" -> <<"k", "p", "-", "7">>
      [] value = "Kp8" -> <<"k", "p", "-", "8">>
      [] value = "Kp9" -> <<"k", "p", "-", "9">>
      [] value = "KpEnter" -> <<"k", "p", "-", "e", "n", "t", "e", "r">>
      [] value = "Left" -> <<"l", "e", "f", "t">>
      [] value = "Menu" -> <<"m", "e", "n", "u">>
      [] value = "Next" -> <<"n", "e", "x", "t">>
      [] value = "NumLock" -> <<"n", "u", "m", "-", "l", "o", "c", "k">>
      [] value = "Pause" -> <<"p", "a", "u", "s", "e">>
      [] value = "Print" -> <<"p", "r", "i", "n", "t">>
      [] value = "Prior" -> <<"p", "r", "i", "o", "r">>
      [] value = "Return" -> <<"r", "e", "t", "u", "r", "n">>
      [] value = "Right" -> <<"r", "i", "g", "h", "t">>
      [] value = "ScrollLock" -> <<"s", "c", "r", "o", "l", "l", "-", "l", "o", "c",
          "k">>
      [] value = "Tab" -> <<"t", "a", "b">>
      [] value = "Up" -> <<"u", "p">>
      [] value = "Window" -> <<"w", "i", "n", "d", "o", "w">>

\* impl Display for NotificationType
DisplayNotificationType(value) ==
    CASE value = "Begin" -> <<"b", "e", "g", "i", "n">>
      [] value = "End" -> <<"e", "n", "d">>
      [] value = "Cancel" -> <<"c", "a", "n", "c", "e", "l">>
      [] value = "Pause" -> <<"p", "a", "u", "s", "e">>
      [] value = "Resume" -> <<"r", "e", "s", "u", "m", "e">>
      [] value = "IndexMark" -> <<"i", "n", "d", "e", "x", "_", "m", "a", "r", "k">>
      [] value = "All" -> <<"a", "l", "l">>

\* impl Display for CursorDirection
DisplayCursorDirection(value) ==
    CASE value = "Backward" -> <<"b", "a", "c", "k", "w", "a", "r", "d">>
      [] value = "Forward" -> <<"f", "o", "r", "w", "a", "r", "d">>

\* impl Display for SortDirection
DisplaySortDirection(value) ==
    CASE value = "Ascending" -> <<"a", "s", "c">>
      [] value = "Descending" -> <<"d", "e", "s", "c">>

\* impl Display for SortKey
DisplaySortKey(value) ==
    CASE value = "ClientName" -> <<"c", "l", "i", "e", "n", "t", "_", "n", "a", "m",
          "e">>
      [] value = "Priority" -> <<"p", "r", "i", "o", "r", "i", "t", "y">>
      [] value = "MessageType" -> <<"m", "e", "s", "s", "a", "g", "e", "_", "t", "y",
          "p", "e">>
      [] value = "Time" -> <<"t", "i", "m", "e">>
      [] value = "User" -> <<"u", "s", "e", "r">>

\* impl Display for Ordering
DisplayOrdering(value) ==
    CASE value = "Text" -> <<"t", "e", "x", "t">>
      [] value = "SoundIcon" -> <<"s", "o", "u", "n", "d", "_", "i", "c", "o", "n">>
      [] value = "Char" -> <<"c", "h", "a", "r">>
      [] value = "Key" -> <<"k", "e", "y">>

\* impl Display for HistoryPosition
DisplayHistoryPosition(value) ==
    CASE value[1] = "First" -> <<"f", "i", "r", "s", "t">>
      [] value[1] = "Last" -> <<"l", "a", "s", "t">>
      [] value[1] = "Pos" -> <<"p", "o", "s", " ">> \o NatToChars(value[2])

\* ordering.iter().map(to_string).collect().join(" ")
RECURSIVE JoinOrdering(_)
JoinOrdering(ordering) ==
    IF ordering = <<>> THEN <<>>
    ELSE IF Len(ordering) = 1 THEN DisplayOrdering(ordering[1])
    ELSE DisplayOrdering(ordering[1]) \o <<" ">> \o JoinOrdering(Tail(ordering))

\* ClientName::with_component
with_component(user, application, component) == <<user, application, component>>

\* ClientName::new
ClientNameNew(user, application) == with_component(user, application, <<"m", "a", "i", "n">>)

\* A boolean as an uppercase word.
on_off_upper(value) == IF value THEN <<"O", "N">> ELSE <<"O", "F", "F">>

\* on_off: a boolean as the word the server reads.
on_off(value) == IF value THEN <<"o", "n">> ELSE <<"o", "f", "f">>

----------------------------------------------------------------------------
(* Request encoder *)

\* The value as the caller gave it.
RangeValueUnclamped(value) == value

\* send_range!: the value is clamped to [-100, 100].
RangeValue(value) == Max(-100, Min(100, value))

\* The command line of a request that send() writes with send_one_line!.
CommandLine(request) ==
    CASE request[1] = "SetName" ->
            T_SET_CLIENT_NAME \o request[2] \o <<":">> \o request[3] \o <<":">> \o request[4]
      [] request[1] = "Speak" -> T_SPEAK
      [] request[1] = "Stop" -> T_STOP \o ScopeToken(request[2])
      [] request[1] = "Cancel" -> T_CANCEL \o ScopeToken(request[2])
      [] request[1] = "Pause" -> T_PAUSE \o ScopeToken(request[2])
      [] request[1] = "Resume" -> T_RESUME \o ScopeToken(request[2])
      [] request[1] = "SetLanguage" ->
            T_SET \o ScopeToken(request[2]) \o T_LANGUAGE \o request[3]
      [] request[1] = "SetRate" ->
            T_SET \o ScopeToken(request[2]) \o T_RATE \o IntToChars(RangeValue(request[3]))
      [] request[1] = "SetPitch" ->
            T_SET \o ScopeToken(request[2]) \o T_PITCH \o IntToChars(RangeValue(request[3]))
      [] request[1] = "SetVolume" ->
            T_SET \o ScopeToken(request[2]) \o T_VOLUME \o IntToChars(RangeValue(request[3]))
      [] request[1] = "GetRate" -> T_GET_RATE
      [] request[1] = "GetOutputModule" -> T_GET_OUTPUT_MODULE
      [] request[1] = "Quit" -> T_QUIT
      [] request[1] = "SpeakChar" ->
            <<"C", "H", "A", "R", " ">> \o <<request[2]>>
      [] request[1] = "SpeakKey" ->
            <<"K", "E", "Y", " ">> \o DisplayKeyName(request[2])
      [] request[1] = "SetPriority" ->
            <<"S", "E", "T", " ", "s", "e", "l", "f", " ", "P", "R", "I", "O", "R", "I",
              "T", "Y", " ">> \o DisplayPriority(request[2])
      [] request[1] = "SetDebug" ->
            <<"S", "E", "T", " ", "a", "l", "l", " ", "D", "E", "B", "U", "G",
              " ">> \o on_off(request[2])
      [] request[1] = "SetOutputModule" ->
            <<"S", "E", "T", " ">> \o ScopeToken(request[2]) \o <<" ", "O", "U", "T",
              "P", "U", "T", "_", "M", "O", "D", "U", "L", "E", " ">> \o request[3]
      [] request[1] = "ListOutputModules" ->
            <<"L", "I", "S", "T", " ", "O", "U", "T", "P", "U", "T", "_", "M", "O", "D",
              "U", "L", "E", "S">>
      [] request[1] = "GetLanguage" ->
            <<"G", "E", "T", " ", "L", "A", "N", "G", "U", "A", "G", "E">>
      [] request[1] = "SetSsmlMode" ->
            <<"S", "E", "T", " ", "s", "e", "l", "f", " ", "S", "S", "M", "L", "_", "M",
              "O", "D", "E", " ">> \o on_off(request[2])
      [] request[1] = "SetPunctuationMode" ->
            <<"S", "E", "T", " ">> \o ScopeToken(request[2]) \o <<" ", "P", "U", "N",
              "C", "T", "U", "A", "T", "I", "O", "N",
              " ">> \o DisplayPunctuationMode(request[3])
      [] request[1] = "SetSpelling" ->
            <<"S", "E", "T", " ">> \o ScopeToken(request[2]) \o <<" ", "S", "P", "E",
              "L", "L", "I", "N", "G", " ">> \o on_off(request[3])
      [] request[1] = "SetCapitalLettersRecognitionMode" ->
            <<"S", "E", "T", " ">> \o ScopeToken(request[2]) \o <<" ", "C", "A", "P",
              "_", "L", "E", "T", "_", "R", "E", "C", "O", "G", "N",
              " ">> \o DisplayCapitalLettersRecognitionMode(request[3])
      [] request[1] = "SetVoiceType" ->
            <<"S", "E", "T", " ">> \o ScopeToken(request[2]) \o <<" ", "V", "O", "I",
              "C", "E", "_", "T", "Y", "P", "E", " ">> \o request[3]
      [] request[1] = "GetVoiceType" ->
            <<"G", "E", "T", " ", "V", "O", "I", "C", "E", "_", "T", "Y", "P", "E">>
      [] request[1] = "ListVoiceTypes" ->
            <<"L", "I", "S", "T", " ", "V", "O", "I", "C", "E", "S">>
      [] request[1] = "SetSynthesisVoice" ->
            <<"S", "E", "T", " ">> \o ScopeToken(request[2]) \o <<" ", "S", "Y", "N",
              "T", "H", "E", "S", "I", "S", "_", "V", "O", "I", "C", "E",
              " ">> \o request[3]
      [] request[1] = "ListSynthesisVoices" ->
            <<"L", "I", "S", "T", " ", "S", "Y", "N", "T", "H", "E", "S", "I", "S", "_",
              "V", "O", "I", "C", "E", "S">>
      [] request[1] = "GetPitch" ->
            <<"G", "E", "T", " ", "P", "I", "T", "C", "H">>
      [] request[1] = "GetVolume" ->
            <<"G", "E", "T", " ", "V", "O", "L", "U", "M", "E">>
      [] request[1] = "SetPauseContext" ->
            <<"S", "E", "T", " ">> \o ScopeToken(request[2]) \o <<" ", "P", "A", "U",
              "S", "E", "_", "C", "O", "N", "T", "E", "X", "T",
              " ">> \o NatToChars(request[3])
      [] request[1] = "SetHistory" ->
            <<"S", "E", "T", " ">> \o ScopeToken(request[2]) \o <<" ", "H", "I", "S",
              "T", "O", "R", "Y", " ">> \o on_off(request[3])
      [] request[1] = "SetNotification" ->
            <<"S", "E", "T", " ", "s", "e", "l", "f", " ", "N", "O", "T", "I", "F", "I",
              "C", "A", "T", "I", "O", "N",
              " ">> \o DisplayNotificationType(request[2]) \o <<" ">> \o on_off(request[3])
      [] request[1] = "Begin" ->
            <<"B", "L", "O", "C", "K", " ", "B", "E", "G", "I", "N">>
      [] request[1] = "End" ->
            <<"B", "L", "O", "C", "K", " ", "E", "N", "D">>
      [] request[1] = "HistoryGetClients" ->
            <<"H", "I", "S", "T", "O", "R", "Y", " ", "G", "E", "T", " ", "C", "L", "I",
              "E", "N", "T", "_", "L", "I", "S", "T">>
      [] request[1] = "HistoryGetClientId" ->
            <<"H", "I", "S", "T", "O", "R", "Y", " ", "G", "E", "T", " ", "C", "L", "I",
              "E", "N", "T", "_", "I", "D">>
      [] request[1] = "HistoryGetClientMsgs" ->
            <<"H", "I", "S", "T", "O", "R", "Y", " ", "G", "E", "T", " ", "C", "L", "I",
              "E", "N", "T", "_", "M", "E", "S", "S", "A", "G", "E", "S",
              " ">> \o ScopeToken(request[2]) \o <<" ">> \o NatToChars(request[3]) \o <<"_">> \o NatToChars(request[4])
      [] request[1] = "HistoryGetLastMsgId" ->
            <<"H", "I", "S", "T", "O", "R", "Y", " ", "G", "E", "T", " ", "L", "A", "S",
              "T">>
      [] request[1] = "HistoryGetMsg" ->
            <<"H", "I", "S", "T", "O", "R", "Y", " ", "G", "E", "T", " ", "M", "E", "S",
              "S", "A", "G", "E", " ">> \o NatToChars(request[2])
      [] request[1] = "HistoryCursorGet" ->
            <<"H", "I", "S", "T", "O", "R", "Y", " ", "C", "U", "R", "S", "O", "R", " ",
              "G", "E", "T">>
      [] request[1] = "HistoryCursorSet" ->
            <<"H", "I", "S", "T", "O", "R", "Y", " ", "C", "U", "R", "S", "O", "R", " ",
              "S", "E", "T",
              " ">> \o ScopeToken(request[2]) \o <<" ">> \o DisplayHistoryPosition(request[3])
      [] request[1] = "HistoryCursorMove" ->
            <<"H", "I", "S", "T", "O", "R", "Y", " ", "C", "U", "R", "S", "O", "R",
              " ">> \o DisplayCursorDirection(request[2])
      [] request[1] = "HistorySpeak" ->
            <<"H", "I", "S", "T", "O", "R", "Y", " ", "S", "A", "Y",
              " ">> \o NatToChars(request[2])
      [] request[1] = "HistorySort" ->
            <<"H", "I", "S", "T", "O", "R", "Y", " ", "S", "O", "R", "T",
              " ">> \o DisplaySortDirection(request[2]) \o <<" ">> \o DisplaySortKey(request[3])
      [] request[1] = "HistorySetShortMsgLength" ->
            <<"H", "I", "S", "T", "O", "R", "Y", " ", "S", "E", "T", " ", "S", "H", "O",
              "R", "T", "_", "M", "E", "S", "S", "A", "G", "E", "_", "L", "E", "N", "G",
              "T", "H", " ">> \o NatToChars(request[2])
      [] request[1] = "HistorySetMsgTypeOrdering" ->
            <<"H", "I", "S", "T", "O", "R", "Y", " ", "S", "E", "T", " ", "M", "E", "S",
              "S", "A", "G", "E", "_", "T", "Y", "P", "E", "_", "O", "R", "D", "E", "R",
              "I", "N", "G", " ", "\"">> \o JoinOrdering(request[2]) \o <<"\"">>
      [] request[1] = "HistorySearch" ->
            <<"H", "I", "S", "T", "O", "R", "Y", " ", "S", "E", "A", "R", "C", "H",
              " ">> \o ScopeToken(request[2]) \o <<" ", "\"">> \o request[3] \o <<"\"">>

\* Client::send_line
send_line(w, line, rq) == flush_lines(w, <<line, END_OF_DATA>>, rq)

\* Client::send_lines
send_lines(w, lines, rq) ==
    LET w1 == write_lines(w, lines, rq) IN
    IF w1.err # "Ok" THEN w1 ELSE flush_lines(w1, <<END_OF_DATA>>, rq)

\* Client::send
send(w, request, rq) ==
    CASE request[1] = "SendLine" -> send_line(w, request[2], rq)
      [] request[1] = "SendLines" -> send_lines(w, request[2], rq)
      [] OTHER -> flush_lines(w, <<CommandLine(request)>>, rq)

\* write_lines_tokio and flush_lines_tokio: the asynchronous counterparts of
\* write_lines and flush_lines, every write awaited until the stream took it.
write_lines_tokio(w, lines, rq) == write_lines(w, lines, rq)

flush_lines_tokio(w, lines, rq) == flush_lines(w, lines, rq)

\* AsyncClient::send_lines
tokio_send_lines(w, lines, rq) ==
    LET w1 == write_lines_tokio(w, lines, rq) IN
    IF w1.err # "Ok" THEN w1 ELSE flush_lines_tokio(w1, <<END_OF_DATA>>, rq)

\* AsyncClient::send, for the requests of a speak exchange.
tokio_send(w, request, rq) ==
    CASE request[1] = "Speak" -> flush_lines_tokio(w, <<T_SPEAK>>, rq)
      [] request[1] = "SendLine" -> flush_lines_tokio(w, <<request[2]>>, rq)
      [] request[1] = "SendLines" -> tokio_send_lines(w, request[2], rq)

\* AsyncClient::send_line
tokio_send_line(w, line, rq) == tokio_send(w, <<"SendLine", line>>, rq)

\* impl From<io::Error> for ClientError, applied by `?` on the write path.
WriteError(w) == IF w.err = "WouldBlock" THEN "NotReady" ELSE "Io"

Writer == [buf |-> output, wire |-> wire, free |-> sockFree, nb |-> nonblocking,
           err |-> "Ok"]

----------------------------------------------------------------------------
(* Return codes *)

OK_LANGUAGE_SET == 201
OK_PRIORITY_SET == 202
OK_RATE_SET == 203
OK_PITCH_SET == 204
OK_PUNCTUATION_SET == 205
OK_CAP_LET_RECOGN_SET == 206
OK_SPELLING_SET == 207
OK_CLIENT_NAME_SET == 208
OK_VOICE_SET == 209
OK_STOPPED == 210
OK_PAUSED == 211
OK_RESUMED == 212
OK_CANCELED == 213
OK_TABLE_SET == 215
OK_OUTPUT_MODULE_SET == 216
OK_PAUSE_CONTEXT_SET == 217
OK_VOLUME_SET == 218
OK_SSML_MODE_SET == 219
OK_NOTIFICATION_SET == 220
OK_CUR_SET_FIRST == 220
OK_CUR_SET_LAST == 221
OK_CUR_SET_POS == 222
OK_CUR_MOV_FOR == 223
OK_CUR_MOV_BACK == 224
OK_MESSAGE_QUEUED == 225
OK_SND_ICON_QUEUED == 226
OK_MSG_CANCELED == 227
OK_RECEIVING_DATA == 230
OK_BYE == 231
OK_CLIENTS_LIST_SENT == 240
OK_MSGS_LIST_SENT == 241
OK_LAST_MSG == 242
OK_CUR_POS_RET == 243
OK_TABLE_LIST_SENT == 244
OK_CLIENT_ID_SENT == 245
OK_MSG_TEXT_SENT == 246
OK_HELP_SENT == 248
OK_VOICES_LIST_SENT == 249
OK_OUTPUT_MODULES_LIST_SENT == 250
OK_GET == 251
OK_INSIDE_BLOCK == 260
OK_OUTSIDE_BLOCK == 261
OK_DEBUG_SET == 262
OK_PITCH_RANGE_SET == 263
OK_NOT_IMPLEMENTED == 299
EVENT_INDEX_MARK == 700
EVENT_BEGIN == 701
EVENT_END == 702
EVENT_CANCELED == 703
EVENT_PAUSED == 704
EVENT_RESUMED == 705

----------------------------------------------------------------------------
(* Results and errors *)

Ok(value) == <<"Ok", value>>
Err(error) == <<"Err", error>>
IsOk(r) == r[1] = "Ok"
IsErr(r) == r[1] = "Err"

\* ClientError::Io carrying an io::Error of the given kind.
IoError(kind) == <<"Io", kind>>

\* invalid_input!: the conversion from io::Error keeps every kind but
\* WouldBlock as ClientError::Io.
invalid_input == Err(IoError("InvalidInput"))

\* ClientError::invalid_data and ClientError::unexpected_eof
invalid_data == Err(IoError("InvalidData"))
unexpected_eof == Err(IoError("UnexpectedEof"))

TooFewLines == Err(<<"TooFewLines">>)
TooManyLines == Err(<<"TooManyLines">>)
Ssip(code, message) == Err(<<"Ssip", code, message>>)
UnexpectedStatus(code) == Err(<<"UnexpectedStatus", code>>)

\* The thread unwinds: no value is returned.
Panic == <<"Panic">>

----------------------------------------------------------------------------
(* Line reader and frame parser *)

TAB == "\t"
Whitespace == {" ", TAB, CR, LF}

\* str::trim_end
RECURSIVE TrimEnd(_)
TrimEnd(s) ==
    IF s # <<>> /\ s[Len(s)] \in Whitespace THEN TrimEnd(SubSeq(s, 1, Len(s) - 1)) ELSE s

\* Position of the first occurrence of c in s, or 0.
IndexOf(s, c) ==
    IF \E i \in 1..Len(s) : s[i] = c
    THEN CHOOSE i \in 1..Len(s) : s[i] = c /\ \A j \in 1..(i - 1) : s[j] # c
    ELSE 0

\* The end of the bytes that have arrived on an open non-blocking
\* connection: a read that gets there returns ErrorKind::WouldBlock.  A
\* stream without it ends at the end of the connection.
Pending == "pending"

\* The bytes that have arrived on a non-blocking connection, as a stream.
Available(bytes) == bytes \o <<Pending>>

\* The bytes of a non-blocking stream that have arrived and are unread.
Unread(stream) == SelectSeq(stream, LAMBDA c : c # Pending)

\* BufRead::read_line: the line up to and including the first LF, or what is
\* left at end of stream.  When the bytes that have arrived hold no LF the
\* read consumes them all and fails with WouldBlock.
ReadLine(stream) ==
    LET n == IF IndexOf(stream, LF) = 0 THEN Len(stream) ELSE IndexOf(stream, LF) IN
    IF IndexOf(stream, LF) = 0 /\ stream # <<>> /\ stream[Len(stream)] = Pending
    THEN [line |-> SubSeq(stream, 1, Len(stream) - 1), rest |-> <<Pending>>,
          err |-> "WouldBlock"]
    ELSE [line |-> SubSeq(stream, 1, n), rest |-> Drop(stream, n), err |-> "Ok"]

RECURSIVE DigitsValue(_)
DigitsValue(s) ==
    IF s = <<>> THEN 0 ELSE 10 * DigitsValue(SubSeq(s, 1, Len(s) - 1)) + DigitVal(s[Len(s)])

\* s without its leading zeros (one digit is kept).
RECURSIVE StripZeros(_)
StripZeros(s) == IF Len(s) > 1 /\ s[1] = "0" THEN StripZeros(Tail(s)) ELSE s

\* a <= b for two digit strings without leading zeros.
DigitsLeq(a, b) ==
    \/ Len(a) < Len(b)
    \/ /\ Len(a) = Len(b)
       /\ \/ a = b
          \/ \E i \in 1..Len(a) :
                /\ DigitVal(a[i]) < DigitVal(b[i])
                /\ \A j \in 1..(i - 1) : a[j] = b[j]

\* str::parse for an unsigned integer type whose largest value is written
\* `max`: an optional plus sign and at least one decimal digit, the value not
\* above the maximum; -1 stands for the parse error.
ParseUnsigned(s, max) ==
    LET body == IF s # <<>> /\ s[1] = "+" THEN Tail(s) ELSE s IN
    IF body = <<>> \/ \E i \in 1..Len(body) : ~IsDigit(body[i]) THEN -1
    ELSE IF ~DigitsLeq(StripZeros(body), max) THEN -1
    ELSE DigitsValue(StripZeros(body))

\* u16::MAX and u32::MAX as written
MaxU16 == <<"6", "5", "5", "3", "5">>
MaxU32 == <<"4", "2", "9", "4", "9", "6", "7", "2", "9", "5">>

TOKEN_ERR == <<"E", "R", "R", " ">>
TOKEN_OK == <<"O", "K", " ">>

\* strip_prefix
strip_prefix(line, prefix) == IF StartsWith(line, prefix) THEN Drop(line, Len(prefix)) ELSE line

\* A classification whose error range includes 700.
parse_status_line_inclusive(code, line) ==
    IF code >= 300 /\ code <= 700
    THEN Ssip(code, strip_prefix(line, TOKEN_ERR))
    ELSE Ok([code |-> code, message |-> strip_prefix(line, TOKEN_OK)])

\* parse_status_line: the ClientStatus for a terminal line.
parse_status_line(code, line) ==
    IF code >= 300 /\ code < 700
    THEN Ssip(code, strip_prefix(line, TOKEN_ERR))
    ELSE Ok([code |-> code, message |-> strip_prefix(line, TOKEN_OK)])

\* A reader that returns the error of a frame at the first line carrying an
\* error code, before the status line is read.
RECURSIVE receive_answer_eager(_, _, _)
receive_answer_eager(stream, lines, want) ==
    LET rl == ReadLine(stream)
        line == rl.line
        code == ParseUnsigned(SubSeq(line, 1, 3), MaxU16)
        done(status) == [status |-> status, lines |-> lines, rest |-> rl.rest]
    IN  IF rl.err # "Ok" THEN done(Err(IoError(rl.err)))
        ELSE IF Len(line) < 4 \/ line[4] \notin {" ", "-"} \/ code = -1 THEN done(invalid_input)
        ELSE IF line[4] = " " \/ (code >= 300 /\ code < 700)
        THEN done(parse_status_line(code, TrimEnd(Drop(line, 4))))
        ELSE IF want
        THEN receive_answer_eager(rl.rest, Append(lines, TrimEnd(Drop(line, 4))), want)
        ELSE done(invalid_input)

\* A reader that puts every continuation line in front of the lines read
\* before it.
RECURSIVE receive_answer_newest_first(_, _, _)
receive_answer_newest_first(stream, lines, want) ==
    LET rl == ReadLine(stream)
        line == rl.line
        done(status) == [status |-> status, lines |-> lines, rest |-> rl.rest]
    IN  IF rl.err # "Ok" THEN done(Err(IoError(rl.err)))
        ELSE IF Len(line) < 4 THEN done(invalid_input)
        ELSE IF line[4] = " "
        THEN IF ParseUnsigned(SubSeq(line, 1, 3), MaxU16) = -1
             THEN done(invalid_input)
             ELSE done(parse_status_line(ParseUnsigned(SubSeq(line, 1, 3), MaxU16),
                                         TrimEnd(Drop(line, 4))))
        ELSE IF line[4] = "-"
        THEN IF want
             THEN receive_answer_newest_first(rl.rest,
                                              <<TrimEnd(Drop(line, 4))>> \o lines, want)
             ELSE done(invalid_input)
        ELSE done(invalid_input)

\* receive_answer: reads lines until a status line is found.  `want` says
\* whether the caller passed a line buffer, `lines` is its content so far.
\* Gives [status, lines, rest]: the ClientStatus, the lines collected and the
\* bytes left unread.
RECURSIVE receive_answer(_, _, _)
receive_answer(stream, lines, want) ==
    LET rl == ReadLine(stream)
        line == rl.line
        done(status) == [status |-> status, lines |-> lines, rest |-> rl.rest]
    IN  IF rl.err # "Ok" THEN done(Err(IoError(rl.err)))
        ELSE IF Len(line) < 4 THEN done(invalid_input)
        ELSE IF line[4] = " "
        THEN IF ParseUnsigned(SubSeq(line, 1, 3), MaxU16) = -1
             THEN done(invalid_input)
             ELSE done(parse_status_line(ParseUnsigned(SubSeq(line, 1, 3), MaxU16),
                                         TrimEnd(Drop(line, 4))))
        ELSE IF line[4] = "-"
        THEN IF want
             THEN receive_answer(rl.rest, Append(lines, TrimEnd(Drop(line, 4))), want)
             ELSE done(invalid_input)
        ELSE done(invalid_input)

----------------------------------------------------------------------------
(* Payload parsers *)

\* The first line of a list that has one.
parse_first_value(lines) ==
    IF Len(lines) = 0 THEN TooFewLines ELSE Ok(lines[1])

\* parse_single_value
parse_single_value(lines) ==
    IF Len(lines) = 0 THEN TooFewLines
    ELSE IF Len(lines) = 1 THEN Ok(lines[1])
    ELSE TooManyLines

\* parse_event_id
parse_event_id(lines) ==
    IF Len(lines) < 2 THEN TooFewLines
    ELSE IF Len(lines) = 2 THEN Ok([message |-> lines[1], client |-> lines[2]])
    ELSE TooManyLines

\* parse_single_integer::<u32>
parse_single_integer(lines) ==
    LET v == parse_single_value(lines) IN
    IF IsErr(v) THEN v
    ELSE IF ParseUnsigned(v[2], MaxU32) = -1 THEN invalid_data
    ELSE Ok(ParseUnsigned(v[2], MaxU32))

\* str::split: the fields of s separated by c.
RECURSIVE Split(_, _)
Split(s, c) ==
    IF IndexOf(s, c) = 0 THEN <<s>>
    ELSE <<SubSeq(s, 1, IndexOf(s, c) - 1)>> \o Split(Drop(s, IndexOf(s, c)), c)

\* str::splitn: at most n fields, the last one holding the remainder.
RECURSIVE SplitN(_, _, _)
SplitN(s, c, n) ==
    IF n <= 1 \/ IndexOf(s, c) = 0 THEN <<s>>
    ELSE <<SubSeq(s, 1, IndexOf(s, c) - 1)>> \o SplitN(Drop(s, IndexOf(s, c)), c, n - 1)

T_none == <<"n", "o", "n", "e">>

\* The k-th field as it is written, when there is one.
parse_none_verbatim(fields, k) ==
    IF Len(fields) < k THEN <<"None">> ELSE <<"Some", fields[k]>>

\* SynthesisVoice::parse_none on the k-th field.
parse_none(fields, k) ==
    IF Len(fields) < k THEN <<"None">>
    ELSE IF fields[k] = T_none THEN <<"None">>
    ELSE <<"Some", fields[k]>>

\* impl FromStr for SynthesisVoice
SynthesisVoiceFromStr(s) ==
    LET fields == Split(s, TAB) IN
    Ok([name |-> fields[1], language |-> parse_none(fields, 2),
        dialect |-> parse_none(fields, 3)])

\* impl FromStr for HistoryClientStatus
HistoryClientStatusFromStr(s) ==
    LET fields == SplitN(s, " ", 3) IN
    IF fields[1] = <<>> THEN unexpected_eof
    ELSE IF ParseUnsigned(fields[1], MaxU32) = -1 THEN invalid_data
    ELSE IF Len(fields) < 2 THEN unexpected_eof
    ELSE IF Len(fields) < 3 THEN unexpected_eof
    ELSE IF fields[3] = <<"0">>
    THEN Ok([id |-> ParseUnsigned(fields[1], MaxU32), name |-> fields[2], connected |-> FALSE])
    ELSE IF fields[3] = <<"1">>
    THEN Ok([id |-> ParseUnsigned(fields[1], MaxU32), name |-> fields[2], connected |-> TRUE])
    ELSE invalid_data

\* T::from_str for the types the decoder parses lines into.
FromStr(type, s) ==
    CASE type = "SynthesisVoice" -> SynthesisVoiceFromStr(s)
      [] type = "HistoryClientStatus" -> HistoryClientStatusFromStr(s)

\* parse_typed_lines::<T>: every line converted, or the first error.
parse_typed_lines(lines, type) ==
    LET parsed == [i \in 1..Len(lines) |-> FromStr(type, lines[i])] IN
    IF \E i \in 1..Len(lines) : IsErr(parsed[i])
    THEN parsed[CHOOSE i \in 1..Len(lines) :
                    IsErr(parsed[i]) /\ \A j \in 1..(i - 1) : IsOk(parsed[j])]
    ELSE Ok([i \in 1..Len(lines) |-> parsed[i][2]])

\* Ok(wrap(value)) for an Ok(value), the error unchanged: `Ok(Variant(f()?))`.
Wrap(variant, r) == IF IsErr(r) THEN r ELSE Ok(<<variant, r[2]>>)

----------------------------------------------------------------------------
(* Response decoder *)

MSG_CURSOR_SET_FIRST ==
    <<"O", "K", " ", "C", "U", "R", "S", "O", "R", " ", "S", "E", "T", " ", "F",
      "I", "R", "S", "T">>

\* The match of Client::receive on the status of a frame.
DecodeResponse(status, lines) ==
    LET code == status.code IN
    CASE code = OK_LANGUAGE_SET -> Ok(<<"LanguageSet">>)
      [] code = OK_PRIORITY_SET -> Ok(<<"PrioritySet">>)
      [] code = OK_RATE_SET -> Ok(<<"RateSet">>)
      [] code = OK_PITCH_SET -> Ok(<<"PitchSet">>)
      [] code = OK_PUNCTUATION_SET -> Ok(<<"PunctuationSet">>)
      [] code = OK_CAP_LET_RECOGN_SET -> Ok(<<"CapLetRecognSet">>)
      [] code = OK_SPELLING_SET -> Ok(<<"SpellingSet">>)
      [] code = OK_CLIENT_NAME_SET -> Ok(<<"ClientNameSet">>)
      [] code = OK_VOICE_SET -> Ok(<<"VoiceSet">>)
      [] code = OK_STOPPED -> Ok(<<"Stopped">>)
      [] code = OK_PAUSED -> Ok(<<"Paused">>)
      [] code = OK_RESUMED -> Ok(<<"Resumed">>)
      [] code = OK_CANCELED -> Ok(<<"Canceled">>)
      [] code = OK_TABLE_SET -> Ok(<<"TableSet">>)
      [] code = OK_OUTPUT_MODULE_SET -> Ok(<<"OutputModuleSet">>)
      [] code = OK_PAUSE_CONTEXT_SET -> Ok(<<"PauseContextSet">>)
      [] code = OK_VOLUME_SET -> Ok(<<"VolumeSet">>)
      [] code = OK_SSML_MODE_SET -> Ok(<<"SsmlModeSet">>)
      [] code = OK_NOTIFICATION_SET ->
            IF status.message = MSG_CURSOR_SET_FIRST
            THEN Ok(<<"HistoryCurSetFirst">>)
            ELSE Ok(<<"NotificationSet">>)
      [] code = OK_CUR_SET_LAST -> Ok(<<"HistoryCurSetLast">>)
      [] code = OK_CUR_SET_POS -> Ok(<<"HistoryCurSetPos">>)
      [] code = OK_PITCH_RANGE_SET -> Ok(<<"PitchRangeSet">>)
      [] code = OK_DEBUG_SET -> Ok(<<"DebugSet">>)
      [] code = OK_CUR_MOV_FOR -> Ok(<<"HistoryCurMoveFor">>)
      [] code = OK_CUR_MOV_BACK -> Ok(<<"HistoryCurMoveBack">>)
      [] code = OK_MESSAGE_QUEUED -> Ok(<<"MessageQueued">>)
      [] code = OK_SND_ICON_QUEUED -> Ok(<<"SoundIconQueued">>)
      [] code = OK_MSG_CANCELED -> Ok(<<"MessageCanceled">>)
      [] code = OK_RECEIVING_DATA -> Ok(<<"ReceivingData">>)
      [] code = OK_BYE -> Ok(<<"Bye">>)
      [] code = OK_CLIENTS_LIST_SENT ->
            Wrap("HistoryClientListSent", parse_typed_lines(lines, "HistoryClientStatus"))
      [] code = OK_MSGS_LIST_SENT -> Ok(<<"HistoryMsgsListSent", lines>>)
      [] code = OK_LAST_MSG -> Wrap("HistoryLastMsg", parse_single_value(lines))
      [] code = OK_CUR_POS_RET -> Wrap("HistoryCurPosRet", parse_single_value(lines))
      [] code = OK_TABLE_LIST_SENT -> Ok(<<"TableListSent", lines>>)
      [] code = OK_CLIENT_ID_SENT -> Wrap("HistoryClientIdSent", parse_single_integer(lines))
      [] code = OK_MSG_TEXT_SENT -> Ok(<<"MessageTextSent">>)
      [] code = OK_HELP_SENT -> Ok(<<"HelpSent", lines>>)
      [] code = OK_VOICES_LIST_SENT ->
            Wrap("VoicesListSent", parse_typed_lines(lines, "SynthesisVoice"))
      [] code = OK_OUTPUT_MODULES_LIST_SENT -> Ok(<<"OutputModulesListSent", lines>>)
      [] code = OK_GET -> Wrap("Get", parse_single_value(lines))
      [] code = OK_INSIDE_BLOCK -> Ok(<<"InsideBlock">>)
      [] code = OK_OUTSIDE_BLOCK -> Ok(<<"OutsideBlock">>)
      [] code = OK_NOT_IMPLEMENTED -> Ok(<<"NotImplemented">>)
      [] code = EVENT_INDEX_MARK ->
            IF Len(lines) < 3 THEN TooFewLines
            ELSE IF Len(lines) = 3
            THEN LET id == parse_event_id(lines) IN
                 IF IsErr(id) THEN id ELSE Ok(<<"EventIndexMark", id[2], lines[3]>>)
            ELSE TooManyLines
      [] code = EVENT_BEGIN -> Wrap("EventBegin", parse_event_id(lines))
      [] code = EVENT_END -> Wrap("EventEnd", parse_event_id(lines))
      [] code = EVENT_CANCELED -> Wrap("EventCanceled", parse_event_id(lines))
      [] code = EVENT_PAUSED -> Wrap("EventPaused", parse_event_id(lines))
      [] code = EVENT_RESUMED -> Wrap("EventResumed", parse_event_id(lines))
      [] OTHER -> Panic

\* Client::receive on the unread bytes: [value, rest].
receive(stream) ==
    LET a == receive_answer(stream, <<>>, TRUE) IN
    [value |-> IF IsErr(a.status) THEN a.status ELSE DecodeResponse(a.status[2], a.lines),
     rest |-> a.rest]

\* The match of Client::receive_event on the status code; lines holds at
\* least two lines.  Indexing a vector of three lines at 3 is out of bounds.
DecodeEvent(code, lines) ==
    LET message == lines[1]
        client == lines[2]
        event(ntype) == Ok([ntype |-> ntype, id |-> [message |-> message, client |-> client]])
    IN  CASE code = 700 ->
                IF Len(lines) # 3 THEN unexpected_eof
                ELSE IF Len(lines) < 4 THEN Panic
                ELSE event(<<"IndexMark", lines[4]>>)
          [] code = 701 -> event(<<"Begin">>)
          [] code = 702 -> event(<<"End">>)
          [] code = 703 -> event(<<"Cancel">>)
          [] code = 704 -> event(<<"Pause">>)
          [] code = 705 -> event(<<"Resume">>)
          [] OTHER -> invalid_data

\* Client::receive_event on the unread bytes: [value, rest].
receive_event(stream) ==
    LET a == receive_answer(stream, <<>>, TRUE) IN
    [value |-> IF IsErr(a.status) THEN a.status
               ELSE IF Len(a.lines) < 2 THEN unexpected_eof
               ELSE DecodeEvent(a.status[2].code, a.lines),
     rest |-> a.rest]

----------------------------------------------------------------------------
(* Typed-receive helpers.  Each gives [value, rest] like receive. *)

MaxU8 == <<"2", "5", "5">>

\* The outcome of check_status for the answer `a` of the frame parser.
CheckedStatus(a, expected_code) ==
    [value |-> IF IsErr(a.status) THEN a.status
               ELSE IF a.status[2].code = expected_code THEN Ok(<<"unit">>)
               ELSE UnexpectedStatus(a.status[2].code),
     rest |-> a.rest]

\* Client::check_status: no line buffer is passed to the frame parser.
check_status(stream, expected_code) ==
    CheckedStatus(receive_answer(stream, <<>>, FALSE), expected_code)

\* Client::check_receiving_data
check_receiving_data(stream) == check_status(stream, OK_RECEIVING_DATA)

\* A check of the answer against the code of SET LANGUAGE.
check_language_set(stream) == check_status(stream, OK_LANGUAGE_SET)

\* Client::check_client_name_set
check_client_name_set(stream) == check_status(stream, OK_CLIENT_NAME_SET)

\* The outcome of receive_lines for the answer `a` of the frame parser.
CheckedLines(a, expected_code) ==
    [value |-> IF IsErr(a.status) THEN a.status
               ELSE IF a.status[2].code = expected_code THEN Ok(a.lines)
               ELSE UnexpectedStatus(a.status[2].code),
     rest |-> a.rest]

\* Client::receive_lines
receive_lines(stream, expected_code) ==
    CheckedLines(receive_answer(stream, <<>>, TRUE), expected_code)

\* `parse_single_value(&lines)` on the outcome `r` of receive_lines.
SingleValueOf(r) ==
    [value |-> IF IsErr(r.value) THEN r.value ELSE parse_single_value(r.value[2]),
     rest |-> r.rest]

\* Client::receive_string
receive_string(stream, expected_code) ==
    SingleValueOf(receive_lines(stream, expected_code))

\* `s.parse().map_err(|_| ClientError::invalid_data(..))` for an unsigned type.
ParseOrInvalidData(s, max) ==
    IF ParseUnsigned(s, max) = -1 THEN invalid_data ELSE Ok(ParseUnsigned(s, max))

\* `.and_then(|s| s.parse()..)` on the outcome `r` of receive_string.
ParsedUnsigned(r, max) ==
    [value |-> IF IsErr(r.value) THEN r.value ELSE ParseOrInvalidData(r.value[2], max),
     rest |-> r.rest]

\* `receive_string(code).and_then(|s| s.parse()..)` for an unsigned type.
receive_unsigned(stream, expected_code, max) ==
    ParsedUnsigned(receive_string(stream, expected_code), max)

\* Client::receive_i8, whose result type is u8.
receive_i8(stream) == receive_unsigned(stream, OK_GET, MaxU8)

\* Client::receive_u8
receive_u8(stream) == receive_unsigned(stream, OK_GET, MaxU8)

\* Client::receive_cursor_pos
receive_cursor_pos(stream) == receive_unsigned(stream, OK_CUR_POS_RET, MaxU16)

\* A receive_message_id that accepts OK_MESSAGE_QUEUED only.
MessageIdOfQueuedOnly(a) ==
    [value |-> IF IsErr(a.status) THEN a.status
               ELSE IF a.status[2].code = OK_MESSAGE_QUEUED
               THEN parse_single_integer(a.lines)
               ELSE invalid_data,
     rest |-> a.rest]

\* The outcome of receive_message_id for the answer `a` of the frame parser.
MessageIdOf(a) ==
    [value |-> IF IsErr(a.status) THEN a.status
               ELSE IF a.status[2].code \in {OK_MESSAGE_QUEUED, OK_LAST_MSG}
               THEN parse_single_integer(a.lines)
               ELSE invalid_data,
     rest |-> a.rest]

\* Client::receive_message_id
receive_message_id(stream) == MessageIdOf(receive_answer(stream, <<>>, TRUE))

\* Client::receive_client_id
receive_client_id(stream) == receive_unsigned(stream, OK_CLIENT_ID_SENT, MaxU32)

\* `.and_then(|lines| parse_typed_lines::<T>(&lines))` on the outcome `r` of
\* receive_lines.
TypedLinesOf(r, type) ==
    [value |-> IF IsErr(r.value) THEN r.value ELSE parse_typed_lines(r.value[2], type),
     rest |-> r.rest]

\* `receive_lines(code).and_then(|lines| parse_typed_lines::<T>(&lines))`
receive_typed_lines(stream, expected_code, type) ==
    TypedLinesOf(receive_lines(stream, expected_code), type)

\* Client::receive_synthesis_voices
receive_synthesis_voices(stream) ==
    receive_typed_lines(stream, OK_VOICES_LIST_SENT, "SynthesisVoice")

\* Client::receive_history_clients
receive_history_clients(stream) ==
    receive_typed_lines(stream, OK_CLIENTS_LIST_SENT, "HistoryClientStatus")

----------------------------------------------------------------------------
(* The queued client over a non-blocking stream *)

\* The requests a driver pushes.
QueueRequests ==
    { <<"Speak">>, <<"Stop", <<"Last">>>>, <<"SendLine", <<"h", "i">>>> }

\* Numbers of bytes the server reads from the transport at a time.
DrainSizes == {2, SockCap}

\* A queue that gives up its oldest entry.
PopOldest(q) == [item |-> Head(q), rest |-> Tail(q)]

\* VecDeque::pop_back, as [item, rest].
PopBack(q) == [item |-> q[Len(q)], rest |-> SubSeq(q, 1, Len(q) - 1)]

\* A queue that serves the request pushed last.
PopNewest(q) == [item |-> q[Len(q)], rest |-> SubSeq(q, 1, Len(q) - 1)]

\* A pop that puts the request taken back at the end of the queue.
PopRequeue(q) == [item |-> Head(q), rest |-> Append(Tail(q), Head(q))]

\* VecDeque::pop_front, as [item, rest].
PopFront(q) == [item |-> Head(q), rest |-> Tail(q)]

\* State after QueuedClient::new on a fresh non-blocking connection.
QInit ==
    /\ requests = <<>>
    /\ output = <<>>
    /\ wire = <<>>
    /\ sockFree = SockCap
    /\ nonblocking = TRUE
    /\ result = <<"none">>
    /\ pushCount = 0
    /\ blocked = FALSE
    /\ everBlocked = FALSE
    /\ lastOp = "new"
    /\ args = <<>>
    /\ pc = "Idle"
    /\ input = <<>>
    /\ afterSsip = FALSE
    /\ panicked = FALSE
    /\ inflight = <<>>
    /\ answered = 0

\* QueuedClient::push
push(request) ==
    /\ pushCount < MaxPush
    /\ pushCount' = pushCount + 1
    /\ requests' = Append(requests, [req |-> request, id |-> pushCount + 1])
    /\ lastOp' = "push"
    /\ UNCHANGED callVars
    /\ result' = <<"none">>
    /\ UNCHANGED <<writeVars, nonblocking, blocked, everBlocked, readVars>>

\* QueuedClient::pop
pop ==
    /\ IF requests = <<>>
       THEN result' = <<"Ok", <<"None">>>> /\ requests' = requests
       ELSE /\ result' = <<"Ok", <<"Some", PopBack(requests).item.req>>>>
            /\ requests' = PopBack(requests).rest
    /\ lastOp' = "pop"
    /\ UNCHANGED callVars
    /\ UNCHANGED <<writeVars, nonblocking, pushCount, blocked, everBlocked,
                   readVars>>

\* QueuedClient::send_next
send_next ==
    /\ lastOp' = "send_next"
    /\ UNCHANGED callVars
    /\ IF requests # <<>>
       THEN LET head == PopFront(requests)
                w == send(Writer, head.item.req, head.item.id)
            IN /\ requests' = head.rest
               /\ output' = w.buf
               /\ wire' = w.wire
               /\ sockFree' = w.free
               /\ IF w.err # "Ok"
                  THEN /\ result' = <<"Err", <<WriteError(w)>>>>
                       /\ blocked' = TRUE
                       /\ everBlocked' = TRUE
                  ELSE /\ result' = <<"Ok", <<"bool", TRUE>>>>
                       /\ UNCHANGED <<blocked, everBlocked>>
       ELSE /\ result' = <<"Ok", <<"bool", FALSE>>>>
            /\ UNCHANGED <<requests, writeVars, blocked, everBlocked>>
    /\ UNCHANGED <<nonblocking, pushCount, readVars>>

\* The server reads from the transport and the reactor reports the output
\* writable again.
WritableEvent ==
    /\ sockFree < SockCap
    /\ \E n \in DrainSizes : sockFree' = Min(SockCap, sockFree + n)
    /\ blocked' = FALSE
    /\ lastOp' = "writable"
    /\ UNCHANGED callVars
    /\ UNCHANGED <<requests, output, wire, nonblocking, result, pushCount,
                   everBlocked, readVars>>

QNext ==
    \/ \E request \in QueueRequests : push(request)
    \/ pop
    \/ send_next
    \/ WritableEvent

SpecQ == QInit /\ [][QNext]_vars

----------------------------------------------------------------------------
(* Claims about the queued client's write path (checked under SpecQ) *)

\* The lines a request stands for, and its bytes on the wire: every line
\* followed by CRLF.
RequestLines(request) ==
    CASE request[1] = "SendLine" -> <<request[2], END_OF_DATA>>
      [] request[1] = "SendLines" -> request[2] \o <<END_OF_DATA>>
      [] OTHER -> <<CommandLine(request)>>

ExpectedWire(request) ==
    Concat([i \in 1..Len(RequestLines(request)) |-> RequestLines(request)[i] \o CRLF])

\* C1: send_next on a non-empty queue attempts to write the head request and,
\* when it returns true, exactly the head has left the queue, the rest is
\* unchanged and every byte of the head (after the bytes buffered before it)
\* has been handed to the transport; on an empty queue it returns false and
\* writes nothing.
C1_SendNextRemovesHead ==
    [][lastOp' = "send_next" =>
         IF requests = <<>>
         THEN result' = <<"Ok", <<"bool", FALSE>>>> /\ UNCHANGED <<requests, output, wire, sockFree>>
         ELSE /\ result' \in {<<"Ok", <<"bool", TRUE>>>>, <<"Err", <<"NotReady">>>>}
              /\ result' = <<"Ok", <<"bool", TRUE>>>> =>
                   /\ requests' = Tail(requests)
                   /\ output' = <<>>
                   /\ wire' = wire \o output
                                \o Tag(ExpectedWire(Head(requests).req), Head(requests).id)
      ]_vars

\* C1 witness: send_next returned true while other requests stay queued.
C1_Witness ==
    /\ lastOp = "send_next"
    /\ result = <<"Ok", <<"bool", TRUE>>>>
    /\ requests # <<>>
    /\ wire # <<>>

\* C2: once send_next has returned NotReady, neither that call nor a second
\* call made before the next writable event removes a request from the queue,
\* and the second call returns NotReady again.
C2_NotReadyKeepsQueue ==
    [][lastOp' = "send_next" =>
         /\ result' = <<"Err", <<"NotReady">>>> => requests' = requests
         /\ blocked => result' = <<"Err", <<"NotReady">>>> /\ requests' = requests
      ]_vars

\* The push ordinals of a byte sequence never decrease.
InPushOrder(bytes) ==
    \A i \in 1..Len(bytes) : \A j \in i..Len(bytes) : bytes[i].rq <= bytes[j].rq

\* C3: the bytes handed to the transport, followed by those still held by the
\* writer, come from the requests in the order the requests were pushed.
C3_WireInPushOrder == InPushOrder(wire \o output)

\* C3 witness: bytes of a later push reached the transport after bytes of an
\* earlier one, with a NotReady in between.
C3_Witness ==
    /\ everBlocked
    /\ ~blocked
    /\ output = <<>>
    /\ \E i \in 1..Len(wire) : \E j \in i..Len(wire) : wire[i].rq < wire[j].rq

\* C4: after a NotReady, once the output has been reported writable again and
\* the driver has called send_next until it returned false, every byte of the
\* requests send_next took from the queue has been handed to the transport.
C4_NotReadyRecovered ==
    (lastOp = "send_next" /\ result = <<"Ok", <<"bool", FALSE>>>> /\ everBlocked /\ ~blocked)
        => output = <<>>

----------------------------------------------------------------------------
(* The client over a blocking stream, and a server answering it *)

\* A response frame as the server builds it: the status code, the
\* continuation lines and the text of the status line.
Frame(code, lines, message) == [code |-> code, lines |-> lines, message |-> message]

\* The bytes of a frame: "ccc-line" for every continuation line, then
\* "ccc message", each followed by CRLF.
FrameBytes(f) ==
    Concat([i \in 1..Len(f.lines) |-> NatToChars(f.code) \o <<"-">> \o f.lines[i] \o CRLF])
        \o NatToChars(f.code) \o <<" ">> \o f.message \o CRLF

\* Answers of the server to a command.
AnswerFrames ==
    { Frame(208, <<>>,
            <<"O", "K", " ", "C", "L", "I", "E", "N", "T", " ", "N", "A", "M", "E", " ", "S",
  "E", "T">>),
      Frame(225, <<<<"2", "1">>>>,
            <<"O", "K", " ", "M", "E", "S", "S", "A", "G", "E", " ", "Q", "U", "E", "U", "E",
  "D">>),
      Frame(220, <<>>,
            <<"O", "K", " ", "C", "U", "R", "S", "O", "R", " ", "S", "E", "T", " ", "F", "I",
  "R", "S", "T">>),
      Frame(220, <<>>,
            <<"O", "K", " ", "N", "O", "T", "I", "F", "I", "C", "A", "T", "I", "O", "N", " ",
  "S", "E", "T">>),
      Frame(251, <<<<"1", "0">>>>,
            <<"O", "K", " ", "G", "E", "T", " ", "R", "E", "T", "U", "R", "N", "E", "D">>),
      Frame(214, <<>>,
            <<"O", "K", " ", "D", "O", "N", "E">>),
      Frame(247, <<<<"a">>>>,
            <<"O", "K", " ", "D", "O", "N", "E">>),
      Frame(409, <<>>,
            <<"E", "R", "R", " ", "R", "A", "T", "E", " ", "T", "O", "O", " ", "H", "I", "G",
  "H">>),
      Frame(300, <<<<"x">>>>,
            <<"E", "R", "R", " ", "I", "N", "T", "E", "R", "N", "A", "L">>) }

\* Notifications of the server.
EventFrames ==
    { Frame(700, <<<<"2", "1">>, <<"t", "e", "s", "t">>>>,
            <<"I", "N", "D", "E", "X", " ", "M", "A", "R", "K">>),
      Frame(700, <<<<"2", "1">>, <<"t", "e", "s", "t">>, <<"m", "1">>>>,
            <<"I", "N", "D", "E", "X", " ", "M", "A", "R", "K">>),
      Frame(700, <<<<"2", "1">>, <<"t", "e", "s", "t">>, <<"m", "1">>, <<"x">>>>,
            <<"I", "N", "D", "E", "X", " ", "M", "A", "R", "K">>),
      Frame(701, <<<<"2", "1">>, <<"t", "e", "s", "t">>>>,
            <<"B", "E", "G", "I", "N">>),
      Frame(702, <<<<"2", "1">>>>,
            <<"E", "N", "D">>),
      Frame(703, <<<<"2", "1">>, <<"t", "e", "s", "t">>, <<"x">>>>,
            <<"C", "A", "N", "C", "E", "L", "E", "D">>),
      Frame(704, <<<<"2", "1">>, <<"t", "e", "s", "t">>>>,
            <<"P", "A", "U", "S", "E", "D">>),
      Frame(705, <<<<"2", "1">>, <<"t", "e", "s", "t">>>>,
            <<"R", "E", "S", "U", "M", "E", "D">>),
      Frame(706, <<<<"2", "1">>, <<"t", "e", "s", "t">>>>,
            <<"O", "T", "H", "E", "R">>) }

\* The answers of the exchanges.
ExchangeFrames ==
    { f \in AnswerFrames : f.code \in {OK_CLIENT_NAME_SET, OK_MESSAGE_QUEUED, OK_GET, 214, 409, 300} }

\* The requests the driver sends.
SentRequests == { <<"GetRate">>, <<"Speak">> }

\* The bytes of the frames the server wrote and the client has not received.
UnreadBytes(frames) == Concat([i \in 1..Len(frames) |-> FrameBytes(frames[i].frame)])

\* Number of requests written to the stream so far.
Sent == IF wire = <<>> THEN 0 ELSE wire[Len(wire)].rq

IsReceive(op) == op \in {"receive", "receive_event"}

IsSsip(r) == IsErr(r) /\ r[2][1] = "Ssip"

\* The latest receive returned an Ssip error.
LastWasSsip == IF IsReceive(lastOp) THEN IsSsip(result) ELSE afterSsip

\* State after Client::new on a fresh blocking connection.
RInit ==
    /\ requests = <<>>
    /\ output = <<>>
    /\ wire = <<>>
    /\ sockFree = SockCap
    /\ nonblocking = FALSE
    /\ result = <<"none">>
    /\ pushCount = 0
    /\ blocked = FALSE
    /\ everBlocked = FALSE
    /\ lastOp = "new"
    /\ args = <<>>
    /\ pc = "Idle"
    /\ input = <<>>
    /\ afterSsip = FALSE
    /\ panicked = FALSE
    /\ inflight = <<>>
    /\ answered = 0

\* Client::send of one request.
Send(request) ==
    /\ ~panicked
    /\ Sent < MaxSends
    /\ LET w == send(Writer, request, Sent + 1) IN
          /\ output' = w.buf
          /\ wire' = w.wire
          /\ sockFree' = w.free
          /\ result' = IF w.err = "Ok" THEN Ok(<<"unit">>) ELSE Err(<<WriteError(w)>>)
    /\ lastOp' = "send"
    /\ UNCHANGED callVars
    /\ afterSsip' = LastWasSsip
    /\ UNCHANGED <<queueVars, nonblocking, input, panicked, inflight, answered>>

\* The stream after a receive call with arguments `a` that returned `r`: a
\* panic unwinds the thread that owns the client.
ReceivedWith(op, a, r) ==
    /\ ~panicked
    /\ input # <<>>
    /\ result' = r.value
    /\ input' = r.rest
    /\ inflight' = IF inflight = <<>> THEN <<>> ELSE Tail(inflight)
    /\ panicked' = (r.value = Panic)
    /\ lastOp' = op
    /\ args' = a
    /\ afterSsip' = LastWasSsip
    /\ UNCHANGED <<queueVars, writeVars, nonblocking, answered>>

Received(op, r) ==
    /\ ReceivedWith(op, args, r)
    /\ UNCHANGED pc

\* Client::receive
Receive == Received("receive", receive(input))

\* Client::receive_event
ReceiveEvent == Received("receive_event", receive_event(input))

\* The server writes a frame to the stream.
ServerWrite(f, cmd) ==
    /\ Len(inflight) < MaxInflight
    /\ input' = input \o FrameBytes(f)
    /\ inflight' = Append(inflight, [frame |-> f, cmd |-> cmd])
    /\ lastOp' = "server"
    /\ UNCHANGED callVars
    /\ afterSsip' = LastWasSsip
    /\ UNCHANGED <<queueVars, writeVars, nonblocking, result, panicked>>

\* The server reads the next command and writes its answer.
ServerAnswer(f) ==
    /\ answered < Sent
    /\ answered' = answered + 1
    /\ ServerWrite(f, answered + 1)

\* The server writes a frame unprompted.
ServerNotify(f) ==
    /\ UNCHANGED answered
    /\ ServerWrite(f, 0)

\* The server writes frames, the client receives them.
RNext ==
    \/ Receive
    \/ ReceiveEvent
    \/ \E f \in AnswerFrames \cup EventFrames : ServerNotify(f)

SpecR == RInit /\ [][RNext]_vars

\* The client sends commands, the server answers each, the client receives.
XNext ==
    \/ \E request \in SentRequests : Send(request)
    \/ Receive
    \/ \E f \in ExchangeFrames : ServerAnswer(f)

SpecX == RInit /\ [][XNext]_vars

----------------------------------------------------------------------------
(* Claims about receiving (checked under SpecR) *)

\* The frame at the head of the stream, which a receive is about to read.
NextFrame == Head(inflight).frame

EventId(message, client) == [message |-> message, client |-> client]

\* The codes of the decode table.
DecodeTableCodes ==
    (201..213) \cup (215..227) \cup {230, 231} \cup (240..246) \cup (248..251)
        \cup {260, 261, 262, 263, 299} \cup (700..705)

\* The Response variant of the event codes 701 to 705.
EventVariant(code) ==
    CASE code = 701 -> "EventBegin"
      [] code = 702 -> "EventEnd"
      [] code = 703 -> "EventCanceled"
      [] code = 704 -> "EventPaused"
      [] code = 705 -> "EventResumed"

\* The notification type of the event codes 701 to 705.
EventType(code) ==
    CASE code = 701 -> <<"Begin">>
      [] code = 702 -> <<"End">>
      [] code = 703 -> <<"Cancel">>
      [] code = 704 -> <<"Pause">>
      [] code = 705 -> <<"Resume">>

\* The texts of the example exchange.
ExampleId == <<"2", "1">>
ExampleClient == <<"t", "e", "s", "t">>
MessageQueuedText ==
    <<"O", "K", " ", "M", "E", "S", "S", "A", "G", "E", " ", "Q", "U", "E", "U",
      "E", "D">>
BeginText == <<"B", "E", "G", "I", "N">>
CursorSetFirstText ==
    <<"O", "K", " ", "C", "U", "R", "S", "O", "R", " ", "S", "E", "T", " ", "F",
      "I", "R", "S", "T">>

\* C5: every receive consumes exactly the frame at the head of the stream and
\* leaves the later bytes unread; on the frame "225-21 / 225 OK MESSAGE
\* QUEUED" it yields MessageQueued(21) and on "701-21 / 701-test / 701 BEGIN"
\* it yields EventBegin with message "21" and client "test".
C5_ReceiveOneFrameInOrder ==
    [][lastOp' = "receive" =>
         /\ input' = UnreadBytes(Tail(inflight))
         /\ NextFrame = Frame(225, <<ExampleId>>, MessageQueuedText)
               => result' = Ok(<<"MessageQueued", 21>>)
         /\ NextFrame = Frame(701, <<ExampleId, ExampleClient>>, BeginText)
               => result' = Ok(<<"EventBegin", EventId(ExampleId, ExampleClient)>>)
      ]_vars

\* C6: receive on a frame with code 220 returns HistoryCurSetFirst when the
\* text of the status line is "OK CURSOR SET FIRST" and NotificationSet for
\* any other text.
C6_Code220Disambiguated ==
    [][(lastOp' = "receive" /\ NextFrame.code = 220) =>
         result' = IF NextFrame.message = CursorSetFirstText
                   THEN Ok(<<"HistoryCurSetFirst">>)
                   ELSE Ok(<<"NotificationSet">>)
      ]_vars

\* C7: receive on a frame with code 700 and exactly three continuation lines
\* returns EventIndexMark with the event id of the first two lines and the
\* mark of the third; on a frame with code 701 to 705 and exactly two lines
\* it returns the event variant of the code; with fewer lines it returns
\* TooFewLines and with more lines TooManyLines.
C7_ReceiveDecodesEvents ==
    [][(lastOp' = "receive" /\ NextFrame.code \in 700..705) =>
         LET code == NextFrame.code
             lines == NextFrame.lines
             need == IF code = 700 THEN 3 ELSE 2
         IN  result' = IF Len(lines) < need THEN TooFewLines
                       ELSE IF Len(lines) > need THEN TooManyLines
                       ELSE IF code = 700
                       THEN Ok(<<"EventIndexMark", EventId(lines[1], lines[2]), lines[3]>>)
                       ELSE Ok(<<EventVariant(code), EventId(lines[1], lines[2])>>)
      ]_vars

\* C8: receive_event on a frame with code 700 and three lines returns the
\* Event IndexMark carrying the third line, on a frame with code 701 to 705
\* and two lines the Event of that code, both with message = first line and
\* client = second line; on a frame with any other success code it returns
\* InvalidData.
C8_ReceiveEventMapsCodes ==
    [][lastOp' = "receive_event" =>
         LET code == NextFrame.code
             lines == NextFrame.lines
         IN  /\ (code = 700 /\ Len(lines) = 3) =>
                    result' = Ok([ntype |-> <<"IndexMark", lines[3]>>,
                                  id |-> EventId(lines[1], lines[2])])
             /\ (code \in 701..705 /\ Len(lines) = 2) =>
                    result' = Ok([ntype |-> EventType(code),
                                  id |-> EventId(lines[1], lines[2])])
             /\ (code \notin 300..705) => result' = invalid_data
      ]_vars

\* C9: receive never panics on a well-formed frame, and on a frame whose code
\* is neither in the decode table nor an error code it returns an error.
C9_ReceiveNeverPanics ==
    [][lastOp' = "receive" =>
         /\ result' # Panic
         /\ ~panicked'
         /\ NextFrame.code \notin (DecodeTableCodes \cup (300..699)) => IsErr(result')
      ]_vars

----------------------------------------------------------------------------
(* Claims about an exchange after an error (checked under SpecX) *)

\* C10: a receive that returns an Ssip error has consumed the whole error
\* frame; the receive after it consumes exactly the next frame the server
\* wrote, which answers the oldest command not yet answered to the client,
\* and returns what a receive on a fresh connection returns for that frame.
C10_UsableAfterSsipError ==
    [][lastOp' = "receive" =>
         /\ IsSsip(result') => input' = UnreadBytes(inflight')
         /\ LastWasSsip =>
               /\ result' = receive(FrameBytes(NextFrame)).value
               /\ input' = UnreadBytes(Tail(inflight))
               /\ Head(inflight).cmd = answered - Len(inflight) + 1
      ]_vars

\* C10 witness: the first command was answered by an error, the second
\* command was sent and answered, and the receive after the one that returned
\* the Ssip error has returned a response.
C10_Witness ==
    /\ lastOp = "receive"
    /\ afterSsip
    /\ IsOk(result)
    /\ Sent = 2
    /\ answered = 2
    /\ input = <<>>

----------------------------------------------------------------------------
(* Sending speak data, in every flavour of the client *)

\* The text lines a driver sends.
Texts ==
    { <<"H", "e", "l", "l", "o", ",", " ", "w", "o", "r", "l", "d">>,
      <<"a">> }

\* Sequences of at most n text lines.
RECURSIVE LinesUpTo(_)
LinesUpTo(n) ==
    IF n = 0 THEN {<<>>}
    ELSE LinesUpTo(n - 1) \cup { Append(ls, t) : ls \in { l \in LinesUpTo(n - 1) : Len(l) = n - 1 }, t \in Texts }

\* The state after an operation that wrote speak data and left the writer w.
WroteData(op, lines, w) ==
    /\ Sent < MaxData
    /\ output' = w.buf
    /\ wire' = w.wire
    /\ sockFree' = w.free
    /\ result' = IF w.err = "Ok" THEN Ok(<<"unit">>) ELSE Err(<<WriteError(w)>>)
    /\ lastOp' = op
    /\ args' = lines
    /\ UNCHANGED <<queueVars, readVars, nonblocking, pc>>

\* Client::send_line
ClientSendLine(line) ==
    WroteData("Client::send_line", <<line>>, send_line(Writer, line, Sent + 1))

\* Client::send_lines
ClientSendLines(lines) ==
    WroteData("Client::send_lines", lines, send_lines(Writer, lines, Sent + 1))

\* Client::send of Request::SendLine
ClientSendRequestLine(line) ==
    WroteData("Client::send", <<line>>, send(Writer, <<"SendLine", line>>, Sent + 1))

\* Client::send of Request::SendLines
ClientSendRequestLines(lines) ==
    WroteData("Client::send", lines, send(Writer, <<"SendLines", lines>>, Sent + 1))

\* AsyncClient::send_line
TokioSendLine(line) ==
    WroteData("AsyncClient::send_line", <<line>>, tokio_send_line(Writer, line, Sent + 1))

\* AsyncClient::send_lines
TokioSendLines(lines) ==
    WroteData("AsyncClient::send_lines", lines, tokio_send_lines(Writer, lines, Sent + 1))

\* AsyncClient::send of Request::SendLine
TokioSendRequestLine(line) ==
    WroteData("AsyncClient::send", <<line>>, tokio_send(Writer, <<"SendLine", line>>, Sent + 1))

\* AsyncClient::send of Request::SendLines
TokioSendRequestLines(lines) ==
    WroteData("AsyncClient::send", lines, tokio_send(Writer, <<"SendLines", lines>>, Sent + 1))

DNext ==
    \/ \E line \in Texts : ClientSendLine(line)
    \/ \E lines \in LinesUpTo(MaxLines) : ClientSendLines(lines)
    \/ \E line \in Texts : ClientSendRequestLine(line)
    \/ \E lines \in LinesUpTo(MaxLines) : ClientSendRequestLines(lines)
    \/ \E line \in Texts : TokioSendLine(line)
    \/ \E lines \in LinesUpTo(MaxLines) : TokioSendLines(lines)
    \/ \E line \in Texts : TokioSendRequestLine(line)
    \/ \E lines \in LinesUpTo(MaxLines) : TokioSendRequestLines(lines)

SpecD == RInit /\ [][DNext]_vars

\* The operations that send speak data.
DataOps ==
    { "Client::send_line", "Client::send_lines", "Client::send",
      "AsyncClient::send_line", "AsyncClient::send_lines", "AsyncClient::send" }

\* C11: every operation that sends speak data puts on the wire the given
\* lines in order, each followed by CRLF, then the line "." with its CRLF,
\* and leaves nothing in the write buffer.
C11_SpeakDataTerminated ==
    [][lastOp' \in DataOps =>
         /\ Chars(wire') = Chars(wire)
                \o Concat([i \in 1..Len(args') |-> args'[i] \o CRLF]) \o <<".">> \o CRLF
         /\ output' = <<>>
      ]_vars

----------------------------------------------------------------------------
(* The speak exchange: speak, check_receiving_data, send_line,             *)
(* receive_message_id chained with `?`, then the next command              *)

\* The answers of the server in a speak exchange.
ReceivingData == Frame(230, <<>>, <<"O", "K", " ", "R", "E", "C", "E", "I", "V", "I", "N", "G", " ", "D", "A", "T",
  "A">>)
MessageQueued == Frame(225, <<<<"2", "1">>>>, <<"O", "K", " ", "M", "E", "S", "S", "A", "G", "E", " ", "Q", "U", "E", "U", "E",
  "D">>)
RateReturned == Frame(251, <<<<"1", "0">>>>, <<"O", "K", " ", "G", "E", "T", " ", "R", "E", "T", "U", "R", "N", "E", "D">>)
ErrRateTooHigh == Frame(409, <<>>, <<"E", "R", "R", " ", "R", "A", "T", "E", " ", "T", "O", "O", " ", "H", "I", "G",
  "H">>)
ErrInternal == Frame(300, <<<<"x">>>>, <<"E", "R", "R", " ", "I", "N", "T", "E", "R", "N", "A", "L">>)

\* The bytes of the n-th request on the stream.
Question(n) ==
    LET IsNth(b) == b.rq = n IN Chars(SelectSeq(wire, IsNth))

\* The answers to a question: SPEAK is answered with 230, a message with
\* 225 and its id, GET RATE with 251 and the rate, and each of them may be
\* answered with an error.
SpeakFrames(question) ==
    IF question = T_SPEAK \o CRLF
    THEN {ReceivingData, ErrRateTooHigh, ErrInternal}
    ELSE IF question = T_GET_RATE \o CRLF
         THEN {RateReturned, ErrRateTooHigh, ErrInternal}
         ELSE {MessageQueued, ErrRateTooHigh, ErrInternal}

\* Every request sent so far was answered and a receive call was made for
\* every answer.
NothingAwaited == answered = Sent /\ inflight = <<>>

\* Client::speak: the first call of the chain.
Speak ==
    /\ pc = "Idle"
    /\ NothingAwaited
    /\ ~panicked
    /\ Sent < MaxSends
    /\ LET w == send(Writer, <<"Speak">>, Sent + 1) IN
          /\ output' = w.buf
          /\ wire' = w.wire
          /\ sockFree' = w.free
          /\ result' = IF w.err = "Ok" THEN Ok(<<"unit">>) ELSE Err(<<WriteError(w)>>)
          /\ pc' = IF w.err = "Ok" THEN "Speaking" ELSE "Idle"
    /\ lastOp' = "speak"
    /\ args' = <<>>
    /\ afterSsip' = LastWasSsip
    /\ UNCHANGED <<queueVars, nonblocking, input, panicked, inflight, answered>>

\* Client::check_receiving_data, called when speak returned Ok; an error
\* returns from the chain.
CheckReceivingData ==
    /\ pc = "Speaking"
    /\ ReceivedWith("check_receiving_data", <<>>, check_receiving_data(input))
    /\ pc' = IF IsOk(check_receiving_data(input).value) THEN "SendingText" ELSE "Idle"

\* Client::send_line, called when check_receiving_data returned Ok.
SendLine(line) ==
    /\ pc = "SendingText"
    /\ LET w == send_line(Writer, line, Sent + 1) IN
          /\ output' = w.buf
          /\ wire' = w.wire
          /\ sockFree' = w.free
          /\ result' = IF w.err = "Ok" THEN Ok(<<"unit">>) ELSE Err(<<WriteError(w)>>)
          /\ pc' = IF w.err = "Ok" THEN "Terminated" ELSE "Idle"
    /\ lastOp' = "send_line"
    /\ args' = <<line>>
    /\ afterSsip' = LastWasSsip
    /\ UNCHANGED <<queueVars, nonblocking, input, panicked, inflight, answered>>

\* Client::receive_message_id, called when send_line returned Ok.
ReceiveMessageId ==
    /\ pc = "Terminated"
    /\ ReceivedWith("receive_message_id", <<>>, receive_message_id(input))
    /\ pc' = "Idle"

\* The next command, sent when no speak exchange is under way.
Command(request) ==
    /\ pc = "Idle"
    /\ NothingAwaited
    /\ Send(request)

\* The answer to a command received with Client::receive.
CommandAnswer ==
    /\ pc = "Idle"
    /\ Receive

\* The server answers the next question of the speak exchange.
SpeakServerAnswer ==
    \E f \in SpeakFrames(Question(answered + 1)) : ServerAnswer(f)

KNext ==
    \/ Speak
    \/ CheckReceivingData
    \/ \E line \in Texts : SendLine(line)
    \/ ReceiveMessageId
    \/ Command(<<"GetRate">>)
    \/ CommandAnswer
    \/ SpeakServerAnswer

SpecK == RInit /\ [][KNext]_vars

\* The answer the client is about to read is an error in 3xx to 5xx.
ErrorReplyNext == inflight # <<>> /\ NextFrame.code \in 300..599

\* C12: in the speak exchange, when the server answers SPEAK with an error
\* in 3xx to 5xx instead of 230, check_receiving_data surfaces that error as
\* Ssip, no text and no terminator is written, the exchange is back in Idle
\* with the answer read whole, and the answer to the next command sent from
\* Idle is decoded as if it were alone on the stream; when the answer is 230
\* the chain goes on, send_line writes the text and the terminator, and
\* receive_message_id returns the id of the 225 answer.
C12_SpeakExchange ==
    [][/\ (lastOp' = "check_receiving_data" /\ ErrorReplyNext) =>
             /\ IsSsip(result')
             /\ result'[2][2] = NextFrame.code
             /\ pc' = "Idle"
             /\ wire' = wire
             /\ output' = output
             /\ input' = UnreadBytes(Tail(inflight))
       /\ (lastOp' = "check_receiving_data" /\ inflight # <<>>
             /\ NextFrame.code = OK_RECEIVING_DATA) =>
             /\ IsOk(result')
             /\ pc' = "SendingText"
       /\ lastOp' = "send_line" =>
             /\ pc = "SendingText"
             /\ Chars(wire') = Chars(wire) \o args'[1] \o CRLF \o <<".">> \o CRLF
             /\ output' = <<>>
             /\ pc' = "Terminated"
       /\ (lastOp' = "receive_message_id" /\ inflight # <<>>
             /\ NextFrame.code = OK_MESSAGE_QUEUED) =>
             /\ result' = Ok(DigitsValue(NextFrame.lines[1]))
             /\ pc' = "Idle"
       /\ (lastOp' = "receive" /\ pc = "Idle" /\ inflight # <<>>) =>
             /\ result' = receive(FrameBytes(NextFrame)).value
             /\ input' = UnreadBytes(Tail(inflight))
      ]_vars

----------------------------------------------------------------------------
(* The client over a non-blocking stream: requests meet a full transport   *)
(* and answers arrive in pieces                                            *)

\* The pieces in which the bytes of the server arrive.
Pieces ==
    { <<"2", "0", "8", " ", "O", "K">>,
      <<" ", "X", CR, LF>>,
      <<"2", "2", "5", "-", "2", "1", CR, LF>>,
      <<"2", "2", "5", " ", "O", "K", " ", "Q", CR, LF>> }

\* A piece of the bytes of the server arrives.
Arrive(piece) ==
    /\ Len(input) + Len(piece) <= MaxPending
    /\ input' = input \o piece
    /\ lastOp' = "arrive"
    /\ UNCHANGED <<queueVars, writeVars, nonblocking, result, afterSsip, panicked,
                   inflight, answered, callVars>>

\* The stream after a receive call on what has arrived.
NbReceived(op, a, r) ==
    /\ ~panicked
    /\ result' = r.value
    /\ input' = Unread(r.rest)
    /\ panicked' = (r.value = Panic)
    /\ lastOp' = op
    /\ args' = a
    /\ UNCHANGED <<queueVars, writeVars, nonblocking, afterSsip, inflight, answered,
                   pc>>

\* Client::receive
NbReceive == NbReceived("receive", <<>>, receive(Available(input)))

\* QueuedClient::receive_next
receive_next == NbReceived("receive_next", <<>>, receive(Available(input)))

\* Client::check_client_name_set
NbCheckStatus ==
    NbReceived("check_status", <<OK_CLIENT_NAME_SET>>,
               check_client_name_set(Available(input)))

\* Client::receive_message_id
NbReceiveMessageId ==
    NbReceived("receive_message_id", <<>>, receive_message_id(Available(input)))

\* QueuedClient::push of the request sent in this setting.
NbPush == push(<<"Speak">>)

NNext ==
    \/ NbPush
    \/ send_next
    \/ WritableEvent
    \/ \E piece \in Pieces : Arrive(piece)
    \/ NbReceive
    \/ receive_next
    \/ NbCheckStatus
    \/ NbReceiveMessageId

SpecN == QInit /\ [][NNext]_vars

NbWriteOps == {"send_next"}
NbReadOps == {"receive", "receive_next", "check_status", "receive_message_id"}

NotReady == Err(<<"NotReady">>)

\* C13: on a non-blocking stream a would-block is surfaced as NotReady and
\* never as an Io error, on the write path (send, as called by send_next
\* for a queued request: bytes are left in the buffer because the transport
\* is full) and on the read path
\* (receive, receive_next and the typed helpers: the bytes that have arrived
\* hold no complete line).
C13_WouldBlockIsNotReady ==
    [][/\ (lastOp' \in NbWriteOps \cup NbReadOps) =>
             result' # Err(IoError("WouldBlock"))
       /\ (lastOp' \in NbWriteOps /\ requests # <<>> /\ output' # <<>>) =>
             result' = NotReady
       /\ (lastOp' \in NbReadOps /\ IndexOf(input, LF) = 0) => result' = NotReady
      ]_vars

----------------------------------------------------------------------------
(* The typed-receive helpers on the answers and notifications of the server *)

VoiceLine == <<"v", TAB, "e", "n">>
HistoryClientLine == <<"1", " ", "a", " ", "1">>

\* The answer to HISTORY GET LAST.
LastMsg == Frame(OK_LAST_MSG, <<<<"1", "2", "3">>>>, <<"O", "K", " ", "L", "A", "S", "T", " ", "M", "S", "G", " ", "S", "A", "I", "D">>)

\* The frames the typed helpers meet.
TypedFrames ==
    { Frame(OK_CLIENT_NAME_SET, <<>>, <<"O", "K", " ", "C", "L", "I", "E", "N", "T", " ", "N", "A", "M", "E", " ", "S",
  "E", "T">>),
      Frame(OK_GET, <<<<"1", "0">>>>, <<"O", "K", " ", "G", "E", "T", " ", "R", "E", "T", "U", "R", "N", "E", "D">>),
      Frame(OK_CUR_POS_RET, <<<<"5">>>>, <<"O", "K", " ", "C", "U", "R", "S", "O", "R", " ", "P", "O", "S", "I", "T", "I",
  "O", "N", " ", "R", "E", "T", "U", "R", "N", "E", "D">>),
      Frame(OK_CLIENT_ID_SENT, <<<<"7">>>>, <<"O", "K", " ", "C", "L", "I", "E", "N", "T", " ", "I", "D", " ", "S", "E", "N",
  "T">>),
      Frame(OK_VOICES_LIST_SENT, <<VoiceLine>>, <<"O", "K", " ", "V", "O", "I", "C", "E", " ", "L", "I", "S", "T", " ", "S", "E",
  "N", "T">>),
      Frame(OK_CLIENTS_LIST_SENT, <<HistoryClientLine>>, <<"O", "K", " ", "C", "L", "I", "E", "N", "T", "S", " ", "L", "I", "S", "T", " ",
  "S", "E", "N", "T">>),
      Frame(EVENT_BEGIN, <<ExampleId, ExampleClient>>, BeginText),
      MessageQueued, LastMsg, ErrRateTooHigh }

\* The server writes an answer or a notification when the client has read
\* what was written before.
TypedServerWrite ==
    /\ input = <<>>
    /\ \E f \in TypedFrames : ServerNotify(f)

\* The stream after the call of a typed helper.
TReceived(op, a, r) ==
    /\ ReceivedWith(op, a, r)
    /\ UNCHANGED pc

\* Client::check_status
TCheckStatus ==
    TReceived("check_status", <<OK_CLIENT_NAME_SET>>,
              check_status(input, OK_CLIENT_NAME_SET))

\* Client::receive_lines
TReceiveLines ==
    TReceived("receive_lines", <<OK_GET>>, receive_lines(input, OK_GET))

\* Client::receive_string
TReceiveString ==
    TReceived("receive_string", <<OK_GET>>, receive_string(input, OK_GET))

\* Client::receive_u8
TReceiveU8 == TReceived("receive_u8", <<OK_GET>>, receive_u8(input))

\* Client::receive_i8
TReceiveI8 == TReceived("receive_i8", <<OK_GET>>, receive_i8(input))

\* Client::receive_cursor_pos
TReceiveCursorPos ==
    TReceived("receive_cursor_pos", <<OK_CUR_POS_RET>>, receive_cursor_pos(input))

\* Client::receive_client_id
TReceiveClientId ==
    TReceived("receive_client_id", <<OK_CLIENT_ID_SENT>>, receive_client_id(input))

\* Client::receive_synthesis_voices
TReceiveSynthesisVoices ==
    TReceived("receive_synthesis_voices", <<OK_VOICES_LIST_SENT>>,
              receive_synthesis_voices(input))

\* Client::receive_history_clients
TReceiveHistoryClients ==
    TReceived("receive_history_clients", <<OK_CLIENTS_LIST_SENT>>,
              receive_history_clients(input))

\* Client::receive_message_id
TReceiveMessageId ==
    TReceived("receive_message_id", <<>>, receive_message_id(input))

TNext ==
    \/ TypedServerWrite
    \/ TReceiveMessageId
    \/ TCheckStatus
    \/ TReceiveLines
    \/ TReceiveString
    \/ TReceiveU8
    \/ TReceiveI8
    \/ TReceiveCursorPos
    \/ TReceiveClientId
    \/ TReceiveSynthesisVoices
    \/ TReceiveHistoryClients

SpecT == RInit /\ [][TNext]_vars

TypedOps ==
    { "check_status", "receive_lines", "receive_string", "receive_u8", "receive_i8",
      "receive_cursor_pos", "receive_client_id", "receive_synthesis_voices",
      "receive_history_clients" }

\* The unread bytes are the frames the server wrote and no helper was called
\* for.
Aligned == inflight # <<>> /\ input = UnreadBytes(inflight)

\* C14: a typed-receive helper called with the expected code e on a frame
\* whose success code c differs from e, a 7xx notification included, returns
\* UnexpectedStatus(c) and has read the frame whole; when c = e it succeeds.
C14_TypedHelpersCheckCode ==
    [][(lastOp' \in TypedOps /\ Aligned) =>
         /\ NextFrame.code # args'[1] =>
               /\ result' = UnexpectedStatus(NextFrame.code)
               /\ input' = UnreadBytes(Tail(inflight))
         /\ NextFrame.code = args'[1] =>
               /\ IsOk(result')
               /\ input' = UnreadBytes(Tail(inflight))
      ]_vars

\* C15 as stated: receive_message_id returns the integer of the single
\* continuation line of a 225 or 242 answer, and InvalidData for an answer
\* with any other code.
C15_AnyOtherCodeInvalidData ==
    [][(lastOp' = "receive_message_id" /\ Aligned) =>
         /\ (NextFrame.code \in {225, 242} /\ Len(NextFrame.lines) = 1) =>
               result' = Ok(DigitsValue(NextFrame.lines[1]))
         /\ NextFrame.code \notin {225, 242} => result' = invalid_data
      ]_vars

\* C15: receive_message_id returns the integer of the single continuation
\* line of a 225 or 242 answer, InvalidData for an answer with any other
\* success code, and the Ssip error of an answer whose code is in 300 to 699;
\* in each case the answer is read whole.
C15_MessageIdCodes ==
    [][(lastOp' = "receive_message_id" /\ Aligned) =>
         /\ input' = UnreadBytes(Tail(inflight))
         /\ (NextFrame.code \in {225, 242} /\ Len(NextFrame.lines) = 1) =>
               result' = Ok(DigitsValue(NextFrame.lines[1]))
         /\ (NextFrame.code \notin {225, 242} /\ NextFrame.code \notin 300..699) =>
               result' = invalid_data
         /\ NextFrame.code \in 300..699 =>
               /\ IsSsip(result')
               /\ result'[2][2] = NextFrame.code
      ]_vars

\* receive_message_id returned the id of a 242 answer.
C15_Witness ==
    /\ lastOp = "receive_message_id"
    /\ result = Ok(123)
    /\ input = <<>>

----------------------------------------------------------------------------
(* The frame parser on the byte streams a server can write *)

\* The first three characters of a line: codes on both sides of the bounds
\* of the error range, and texts that are not three digits.
PCodes ==
    { <<"2", "0", "8">>, <<"2", "9", "9">>, <<"3", "0", "0">>, <<"6", "9", "9">>, <<"7", "0", "0">>, <<"a", "b", "c">>, <<"+", "1", "2">> }

MsgX == <<"X">>
MsgOkX == TOKEN_OK \o MsgX
MsgErrX == TOKEN_ERR \o MsgX
PMessages == {MsgX, MsgOkX, MsgErrX}

\* Lines with a space as fourth character.
StatusLines == { c \o <<" ">> \o m \o CRLF : c \in PCodes, m \in PMessages }

\* A line whose fourth character is neither space nor dash, a line of two
\* characters, a blank line, and the end of the stream.
BadLines == { <<"2", "0", "8", "_", "O", "K", " ", "X">> \o CRLF, <<"2", "0">> \o CRLF, CRLF, <<>> }

\* Lines with a dash as fourth character.
ContLines ==
    { <<"2", "0", "8", "-", "a">> \o CRLF, <<"2", "0", "8", "-", "b">> \o CRLF, <<"4", "0", "9", "-", "a">> \o CRLF, <<"a", "b", "c", "-", "x">> \o CRLF }

\* The sequences of at most n continuation lines, as bytes.
RECURSIVE ContPrefixes(_)
ContPrefixes(n) ==
    IF n = 0 THEN {<<>>}
    ELSE {<<>>} \cup { c \o p : c \in ContLines, p \in ContPrefixes(n - 1) }

\* What follows the first frame on the stream: nothing or another frame.
NextOnStream == <<"2", "0", "8", " ", "O", "K", " ", "Y">> \o CRLF
Tails == {<<>>, NextOnStream}

\* The byte streams given to the frame parser.
ParserInputs ==
    { p \o l \o t : p \in ContPrefixes(MaxCont), l \in StatusLines \cup BadLines,
                     t \in Tails }

\* A reader over one of the streams.
PInit ==
    /\ requests = <<>>
    /\ output = <<>>
    /\ wire = <<>>
    /\ sockFree = SockCap
    /\ nonblocking = FALSE
    /\ result = <<"none">>
    /\ pushCount = 0
    /\ blocked = FALSE
    /\ everBlocked = FALSE
    /\ lastOp = "new"
    /\ args = <<>>
    /\ pc = "Idle"
    /\ input \in ParserInputs
    /\ afterSsip = FALSE
    /\ panicked = FALSE
    /\ inflight = <<>>
    /\ answered = 0

\* The outcome `a` of receive_answer as seen by its caller: the status, the
\* line buffer and the reader.
Parsed(op, a) ==
    /\ result' = a.status
    /\ args' = a.lines
    /\ input' = a.rest
    /\ lastOp' = op
    /\ UNCHANGED <<queueVars, writeVars, nonblocking, afterSsip, panicked, inflight,
                   answered, pc>>

\* receive_answer(input, Some(&mut lines)) with an empty buffer
ParseWithBuffer == Parsed("receive_answer(Some)", receive_answer(input, <<>>, TRUE))

\* receive_answer(input, None)
ParseWithoutBuffer == Parsed("receive_answer(None)", receive_answer(input, <<>>, FALSE))

PNext ==
    \/ ParseWithBuffer
    \/ ParseWithoutBuffer

SpecP == PInit /\ [][PNext]_vars

ParseOps == {"receive_answer(Some)", "receive_answer(None)"}

\* The codes of PCodes that are three digits.
DigitCodes == { c \in PCodes : \A i \in 1..Len(c) : IsDigit(c[i]) }

ContTexts == { <<"a">>, <<"b">> }

\* C16: for a response made of the continuation lines `NNN-a`, `NNN-b` and
\* the status line `NNN OK X` with NNN a success code, receive_answer with a
\* line buffer returns the status (NNN, "X") and the lines <<a, b>> in
\* arrival order, without the four characters of the prefix and without the
\* CRLF, and leaves what follows the status line unread.
C16_MultiLineDecoding ==
    [][lastOp' = "receive_answer(Some)" =>
         \A c \in DigitCodes, a \in ContTexts, b \in ContTexts, t \in Tails :
            (/\ DigitsValue(c) \notin 300..699
             /\ input = c \o <<"-">> \o a \o CRLF \o c \o <<"-">> \o b \o CRLF
                         \o c \o <<" ">> \o MsgOkX \o CRLF \o t) =>
               /\ result' = Ok([code |-> DigitsValue(c), message |-> MsgX])
               /\ args' = <<a, b>>
               /\ input' = t
      ]_vars

\* The frame 208-a, 208-b, 208 OK X was decoded and the frame after it is
\* unread.
C16_Witness ==
    /\ lastOp = "receive_answer(Some)"
    /\ result = Ok([code |-> 208, message |-> MsgX])
    /\ args = << <<"a">>, <<"b">> >>
    /\ input = NextOnStream

\* C17: a status line whose code is in 300..699 makes receive_answer return
\* the error Ssip with the code and the message without a leading "ERR ";
\* any other code returns success with the code and the message without a
\* leading "OK "; a message without the prefix is kept unchanged.
C17_StatusClassification ==
    [][lastOp' \in ParseOps =>
         \A c \in DigitCodes, m \in PMessages, t \in Tails :
            input = c \o <<" ">> \o m \o CRLF \o t =>
               /\ result' =
                     IF DigitsValue(c) >= 300 /\ DigitsValue(c) < 700
                     THEN Ssip(DigitsValue(c), IF m = MsgErrX THEN MsgX ELSE m)
                     ELSE Ok([code |-> DigitsValue(c),
                              message |-> IF m = MsgOkX THEN MsgX ELSE m])
               /\ input' = t
      ]_vars

\* A status line with code 700 was classified as a success and its message,
\* which does not begin with "OK ", was kept unchanged.
C17_Witness ==
    /\ lastOp \in ParseOps
    /\ result = Ok([code |-> 700, message |-> MsgErrX])
    /\ input = <<>>

\* C18: receive_answer returns a protocol failure, and no status, when the
\* line it reads is shorter than four characters (a blank line and the end
\* of the stream included), when the code of the line is not numeric, when
\* the fourth character is neither space nor dash, and when the line is a
\* continuation line and the caller passed no line buffer.
C18_ParserFailureModes ==
    [][lastOp' \in ParseOps =>
         LET line == ReadLine(input).line IN
         (\/ Len(line) < 4
          \/ \E i \in 1..3 : ~IsDigit(line[i])
          \/ line[4] \notin {" ", "-"}
          \/ (line[4] = "-" /\ lastOp' = "receive_answer(None)")) =>
            result' = invalid_input
      ]_vars

\* The lines of the bytes a call of receive_answer consumed.
ConsumedLines ==
    LET consumed == SubSeq(input, 1, Len(input) - Len(input'))
        pieces == Split(consumed, LF)
    IN  SelectSeq(pieces, LAMBDA l : l # <<>>)

\* C19: when receive_answer accepts a frame (it returns a status, success or
\* Ssip), every line it read begins with three ASCII digits, and the code of
\* every continuation line is the code of the status line.
C19_AcceptedFramesWellFormed ==
    [][(lastOp' \in ParseOps /\ (IsOk(result') \/ IsSsip(result'))) =>
         \A i \in 1..Len(ConsumedLines) :
            /\ \A k \in 1..3 : IsDigit(ConsumedLines[i][k])
            /\ SubSeq(ConsumedLines[i], 1, 3)
                 = SubSeq(ConsumedLines[Len(ConsumedLines)], 1, 3)
      ]_vars

----------------------------------------------------------------------------
(* The response decoder on the answers of the decode table *)

OkText == <<"O", "K">>

\* Answers with the codes of the decode table that carry lines, an answer
\* without payload, and answers with too few and too many lines.
DecodeFrames ==
    { Frame(OK_CLIENT_NAME_SET, <<>>, OkText),
      MessageQueued,
      Frame(OK_MSGS_LIST_SENT, << <<"a">>, <<"b">> >>, OkText),
      Frame(OK_TABLE_LIST_SENT, << <<"a">> >>, OkText),
      Frame(OK_HELP_SENT, << <<"b">>, <<"a">> >>, OkText),
      Frame(OK_OUTPUT_MODULES_LIST_SENT, << <<"a">> >>, OkText),
      LastMsg,
      Frame(OK_CUR_POS_RET, << <<"5">>, <<"6">> >>, OkText),
      Frame(OK_GET, <<>>, OkText),
      Frame(OK_GET, << <<"1", "0">> >>, OkText),
      Frame(OK_CLIENT_ID_SENT, << <<"7">> >>, OkText),
      Frame(OK_CLIENTS_LIST_SENT, <<HistoryClientLine>>, OkText),
      Frame(OK_VOICES_LIST_SENT, <<VoiceLine>>, OkText) }

\* The server writes an answer of the decode table.
DecodeServerWrite == \E f \in DecodeFrames : ServerNotify(f)

ENext ==
    \/ DecodeServerWrite
    \/ Receive

SpecE == RInit /\ [][ENext]_vars

\* The Response variants that carry the lines of the answer.
ListVariant(code) ==
    CASE code = 241 -> "HistoryMsgsListSent"
      [] code = 244 -> "TableListSent"
      [] code = 248 -> "HelpSent"
      [] code = 250 -> "OutputModulesListSent"

\* The Response variants that carry the single line of the answer.
StringVariant(code) ==
    CASE code = 242 -> "HistoryLastMsg"
      [] code = 243 -> "HistoryCurPosRet"
      [] code = 251 -> "Get"

\* The records of the example lines of the answers 240 and 249.
ExampleHistoryClient == [id |-> 1, name |-> <<"a">>, connected |-> TRUE]
ExampleVoice ==
    [name |-> <<"v">>, language |-> <<"Some", <<"e", "n">>>>, dialect |-> <<"None">>]

\* C20: receive maps the code and the lines of an answer to a Response as
\* the decode table says: a payload-free code to its variant, 225 to
\* MessageQueued carrying the integer of its single line, 241, 244, 248 and
\* 250 to a variant carrying the lines as they are, 242, 243 and 251 to a
\* variant carrying the single line (TooFewLines or TooManyLines when there
\* is not exactly one), 245 to the integer of the single line, 240 and 249 to
\* one parsed record per line.
C20_DecodeTable ==
    [][(lastOp' = "receive" /\ Aligned) =>
         /\ NextFrame.code = 208 => result' = Ok(<<"ClientNameSet">>)
         /\ (NextFrame.code = 225 /\ Len(NextFrame.lines) = 1) =>
               result' = Ok(<<"MessageQueued", DigitsValue(NextFrame.lines[1])>>)
         /\ NextFrame.code \in {241, 244, 248, 250} =>
               result' = Ok(<<ListVariant(NextFrame.code), NextFrame.lines>>)
         /\ NextFrame.code \in {242, 243, 251} =>
               result' = IF Len(NextFrame.lines) = 0 THEN TooFewLines
                         ELSE IF Len(NextFrame.lines) > 1 THEN TooManyLines
                         ELSE Ok(<<StringVariant(NextFrame.code), NextFrame.lines[1]>>)
         /\ (NextFrame.code = 245 /\ Len(NextFrame.lines) = 1) =>
               result' = Ok(<<"HistoryClientIdSent", DigitsValue(NextFrame.lines[1])>>)
         /\ NextFrame = Frame(240, <<HistoryClientLine>>, OkText) =>
               result' = Ok(<<"HistoryClientListSent", <<ExampleHistoryClient>>>>)
         /\ NextFrame = Frame(249, <<VoiceLine>>, OkText) =>
               result' = Ok(<<"VoicesListSent", <<ExampleVoice>>>>)
      ]_vars

----------------------------------------------------------------------------
(* The request encoder of the blocking client, over every Request variant *)

\* The values of the domain types.
Priorities == {"Progress", "Notification", "Message", "Text", "Important"}
PunctuationModes == {"None", "Some", "Most", "All"}
CapitalLettersRecognitionModes == {"None", "Spell", "Icon"}
KeyNames ==
    {
      "Space", "Underscore", "DoubleQuote", "Alt", "Control", "Hyper", "Meta",
      "Shift", "Super", "Backspace", "Break", "Delete", "Down", "End", "Enter",
      "Escape", "F1", "F2", "F3", "F4", "F5", "F6", "F7", "F8", "F9", "F10", "F11",
      "F12", "F13", "F14", "F15", "F16", "F17", "F18", "F19", "F20", "F21", "F22",
      "F23", "F24", "Home", "Insert", "KpMultiply", "KpPlus", "KpMinus", "KpDot",
      "KpDivide", "Kp0", "Kp1", "Kp2", "Kp3", "Kp4", "Kp5", "Kp6", "Kp7", "Kp8",
      "Kp9", "KpEnter", "Left", "Menu", "Next", "NumLock", "Pause", "Print", "Prior",
      "Return", "Right", "ScrollLock", "Tab", "Up", "Window" }
NotificationTypes == {"Begin", "End", "Cancel", "Pause", "Resume", "IndexMark", "All"}
CursorDirections == {"Backward", "Forward"}
SortDirections == {"Ascending", "Descending"}
SortKeys == {"ClientName", "Priority", "MessageType", "Time", "User"}
Orderings == {"Text", "SoundIcon", "Char", "Key"}
HistoryPositions == {<<"First">>, <<"Last">>, <<"Pos", 0>>, <<"Pos", 65535>>}
I8 == -128 .. 127
Ids == {0, 7, 4096}
MessageScopes == {<<"Last">>, <<"All">>} \cup {<<"Message", id>> : id \in Ids}
ClientScopes == {<<"Current">>, <<"All">>} \cup {<<"Client", id>> : id \in Ids}
Words == {<<"e", "n">>, <<"e", "s", "p", "e", "a", "k", "-", "n", "g">>}
OrderingLists ==
    {<<>>} \cup {<<o>> : o \in Orderings} \cup {<<o, p>> : o, p \in Orderings}

\* The requests that send() writes as one command line.
CommandRequests ==
    {<<v>> : v \in {"Speak", "GetOutputModule", "ListOutputModules", "GetLanguage",
                    "GetVoiceType", "ListVoiceTypes", "ListSynthesisVoices", "GetRate",
                    "GetPitch", "GetVolume", "Begin", "End", "HistoryGetClients",
                    "HistoryGetClientId", "HistoryGetLastMsgId", "HistoryCursorGet",
                    "Quit"}}
    \cup {<<"SetName">> \o ClientNameNew(<<"t", "e", "s", "t">>, <<"t", "e", "s", "t">>),
          <<"SetName">> \o with_component(<<"j", "o", "e">>, <<"t", "e", "s", "t">>, <<"a">>)}
    \cup {<<"SpeakChar", ch>> : ch \in {"a", " ", "."}}
    \cup {<<"SpeakKey", key>> : key \in KeyNames}
    \cup {<<v, scope>> : v \in {"Stop", "Cancel", "Pause", "Resume"}, scope \in MessageScopes}
    \cup {<<"SetPriority", prio>> : prio \in Priorities}
    \cup {<<v, value>> : v \in {"SetDebug", "SetSsmlMode"}, value \in BOOLEAN}
    \cup {<<v, scope, value>> : v \in {"SetOutputModule", "SetLanguage", "SetVoiceType",
                                       "SetSynthesisVoice"},
                                scope \in ClientScopes, value \in Words}
    \cup {<<"SetPunctuationMode", scope, mode>> : scope \in ClientScopes, mode \in PunctuationModes}
    \cup {<<"SetCapitalLettersRecognitionMode", scope, mode>> :
             scope \in ClientScopes, mode \in CapitalLettersRecognitionModes}
    \cup {<<v, scope, value>> : v \in {"SetSpelling", "SetHistory"},
                                scope \in ClientScopes, value \in BOOLEAN}
    \cup {<<v, scope, value>> : v \in {"SetRate", "SetPitch", "SetVolume"},
                                scope \in ClientScopes, value \in I8}
    \cup {<<"SetPauseContext", scope, value>> : scope \in ClientScopes, value \in Ids}
    \cup {<<"SetNotification", ntype, value>> : ntype \in NotificationTypes, value \in BOOLEAN}
    \cup {<<"HistoryGetClientMsgs", scope, start, number>> :
             scope \in ClientScopes, start \in Ids, number \in Ids}
    \cup {<<v, id>> : v \in {"HistoryGetMsg", "HistorySpeak", "HistorySetShortMsgLength"},
                      id \in Ids}
    \cup {<<"HistoryCursorSet", scope, pos>> : scope \in ClientScopes, pos \in HistoryPositions}
    \cup {<<"HistoryCursorMove", direction>> : direction \in CursorDirections}
    \cup {<<"HistorySort", direction, key>> : direction \in SortDirections, key \in SortKeys}
    \cup {<<"HistorySetMsgTypeOrdering", ordering>> : ordering \in OrderingLists}
    \cup {<<"HistorySearch", scope, condition>> : scope \in ClientScopes, condition \in Words}

\* A client that is about to send one request.
SInit ==
    /\ requests = <<>>
    /\ output = <<>>
    /\ wire = <<>>
    /\ sockFree = SockCap
    /\ nonblocking = FALSE
    /\ result = <<"none">>
    /\ pushCount = 0
    /\ blocked = FALSE
    /\ everBlocked = FALSE
    /\ lastOp = "new"
    /\ args \in CommandRequests
    /\ pc = "Idle"
    /\ input = <<>>
    /\ afterSsip = FALSE
    /\ panicked = FALSE
    /\ inflight = <<>>
    /\ answered = 0

\* Client::send of the request
SendRequest ==
    /\ pc = "Idle"
    /\ LET w == send(Writer, args, Sent + 1) IN
          /\ output' = w.buf
          /\ wire' = w.wire
          /\ sockFree' = w.free
          /\ result' = IF w.err = "Ok" THEN Ok(<<"unit">>) ELSE Err(<<WriteError(w)>>)
    /\ lastOp' = "send"
    /\ pc' = "Sent"
    /\ UNCHANGED <<queueVars, readVars, nonblocking, args>>

SNext == SendRequest

SpecS == SInit /\ [][SNext]_vars

\* The command line on the wire, without its CRLF.
SentLine == SubSeq(Chars(wire), 1, Len(wire) - 2)

\* The text after the last space of a line.
RECURSIVE LastToken(_)
LastToken(line) ==
    IF line = <<>> \/ line[Len(line)] = " " THEN <<>>
    ELSE LastToken(SubSeq(line, 1, Len(line) - 1)) \o <<line[Len(line)]>>

\* clamp(v, -100, 100)
Clamp(v) == IF v < -100 THEN -100 ELSE IF v > 100 THEN 100 ELSE v

\* C21: for SetRate, SetPitch and SetVolume with any i8 value v and any scope,
\* the integer on the wire is clamp(v, -100, 100).
C21_RangeClamped ==
    (pc = "Sent" /\ args[1] \in {"SetRate", "SetPitch", "SetVolume"}) =>
        /\ IsOk(result)
        /\ StartsWith(SentLine, T_SET \o ScopeToken(args[2]) \o <<" ">>)
        /\ LastToken(SentLine) = IntToChars(Clamp(args[3]))
        /\ SubSeq(Chars(wire), Len(wire) - 1, Len(wire)) = CRLF

C21_Witness ==
    /\ pc = "Sent"
    /\ args = <<"SetVolume", <<"Client", 7>>, -128>>
    /\ Chars(wire) = <<"S", "E", "T", " ", "7", " ", "V", "O", "L", "U", "M", "E", " ", "-", "1", "0", "0">> \o CRLF

\* The requests that carry a boolean.
BooleanSetters == {"SetDebug", "SetSsmlMode", "SetSpelling", "SetHistory", "SetNotification"}

\* C22: every boolean-valued setter writes true as the lowercase word `on`
\* and false as the lowercase word `off`, as the last token of its line.
C22_BooleansOnOff ==
    (pc = "Sent" /\ args[1] \in BooleanSetters) =>
        /\ IsOk(result)
        /\ LastToken(SentLine) = IF args[Len(args)] THEN <<"o", "n">> ELSE <<"o", "f", "f">>
        /\ SubSeq(Chars(wire), Len(wire) - 1, Len(wire)) = CRLF

C22_Witness ==
    /\ pc = "Sent"
    /\ args = <<"SetNotification", "IndexMark", FALSE>>
    /\ Chars(wire) = <<"S", "E", "T", " ", "s", "e", "l", "f", " ", "N", "O", "T", "I", "F",
          "I", "C", "A", "T", "I", "O", "N", " ", "i", "n", "d", "e", "x", "_",
          "m", "a", "r", "k", " ", "o", "f", "f">> \o CRLF

\* The wire token of a priority.
PriorityToken(p) ==
    CASE p = "Progress" -> <<"p", "r", "o", "g", "r", "e", "s", "s">>
      [] p = "Notification" -> <<"n", "o", "t", "i", "f", "i", "c", "a", "t", "i", "o", "n">>
      [] p = "Message" -> <<"m", "e", "s", "s", "a", "g", "e">>
      [] p = "Text" -> <<"t", "e", "x", "t">>
      [] p = "Important" -> <<"i", "m", "p", "o", "r", "t", "a", "n", "t">>

\* C23: SetPriority(p) writes `SET self PRIORITY <token>` where the token is
\* progress, notification, message, text or important for Progress,
\* Notification, Message, Text and Important.
C23_PriorityTokens ==
    (pc = "Sent" /\ args[1] = "SetPriority") =>
        Chars(wire) = <<"S", "E", "T", " ", "s", "e", "l", "f", " ", "P", "R", "I", "O", "R",
          "I", "T", "Y", " ">>
                        \o PriorityToken(args[2]) \o CRLF

\* The words of a line, joined by single spaces.
RECURSIVE JoinWords(_)
JoinWords(words) ==
    IF words = <<>> THEN <<>>
    ELSE IF Len(words) = 1 THEN words[1]
    ELSE words[1] \o <<" ">> \o JoinWords(Tail(words))

\* The token of a message scope or a client scope: self, all or the numeric id.
ScopeWord(scope) ==
    IF scope[1] \in {"Last", "Current"} THEN <<"s", "e", "l", "f">>
    ELSE IF scope[1] = "All" THEN <<"a", "l", "l">>
    ELSE NatToChars(scope[2])

OnOff(b) == IF b THEN <<"o", "n">> ELSE <<"o", "f", "f">>

\* The words of the command line of a request, in the documented format.
DocumentedWords(r) ==
    CASE r[1] = "SetName" ->
          <<<<"S", "E", "T">>,
            <<"s", "e", "l", "f">>,
            <<"C", "L", "I", "E", "N", "T", "_", "N", "A", "M", "E">>,
            r[2] \o <<":">> \o r[3] \o <<":">> \o r[4]>>
      [] r[1] = "Speak" ->
          <<<<"S", "P", "E", "A", "K">>>>
      [] r[1] = "SpeakChar" ->
          <<<<"C", "H", "A", "R">>,
            <<r[2]>>>>
      [] r[1] = "SpeakKey" ->
          <<<<"K", "E", "Y">>,
            DisplayKeyName(r[2])>>
      [] r[1] = "Stop" ->
          <<<<"S", "T", "O", "P">>,
            ScopeWord(r[2])>>
      [] r[1] = "Cancel" ->
          <<<<"C", "A", "N", "C", "E", "L">>,
            ScopeWord(r[2])>>
      [] r[1] = "Pause" ->
          <<<<"P", "A", "U", "S", "E">>,
            ScopeWord(r[2])>>
      [] r[1] = "Resume" ->
          <<<<"R", "E", "S", "U", "M", "E">>,
            ScopeWord(r[2])>>
      [] r[1] = "SetPriority" ->
          <<<<"S", "E", "T">>,
            <<"s", "e", "l", "f">>,
            <<"P", "R", "I", "O", "R", "I", "T", "Y">>,
            PriorityToken(r[2])>>
      [] r[1] = "SetDebug" ->
          <<<<"S", "E", "T">>,
            <<"a", "l", "l">>,
            <<"D", "E", "B", "U", "G">>,
            OnOff(r[2])>>
      [] r[1] = "SetSsmlMode" ->
          <<<<"S", "E", "T">>,
            <<"s", "e", "l", "f">>,
            <<"S", "S", "M", "L", "_", "M", "O", "D", "E">>,
            OnOff(r[2])>>
      [] r[1] = "GetOutputModule" ->
          <<<<"G", "E", "T">>,
            <<"O", "U", "T", "P", "U", "T", "_", "M", "O", "D", "U", "L", "E">>>>
      [] r[1] = "GetLanguage" ->
          <<<<"G", "E", "T">>,
            <<"L", "A", "N", "G", "U", "A", "G", "E">>>>
      [] r[1] = "GetVoiceType" ->
          <<<<"G", "E", "T">>,
            <<"V", "O", "I", "C", "E", "_", "T", "Y", "P", "E">>>>
      [] r[1] = "GetRate" ->
          <<<<"G", "E", "T">>,
            <<"R", "A", "T", "E">>>>
      [] r[1] = "GetPitch" ->
          <<<<"G", "E", "T">>,
            <<"P", "I", "T", "C", "H">>>>
      [] r[1] = "GetVolume" ->
          <<<<"G", "E", "T">>,
            <<"V", "O", "L", "U", "M", "E">>>>
      [] r[1] = "ListOutputModules" ->
          <<<<"L", "I", "S", "T">>,
            <<"O", "U", "T", "P", "U", "T", "_", "M", "O", "D", "U", "L", "E", "S">>>>
      [] r[1] = "ListVoiceTypes" ->
          <<<<"L", "I", "S", "T">>,
            <<"V", "O", "I", "C", "E", "S">>>>
      [] r[1] = "ListSynthesisVoices" ->
          <<<<"L", "I", "S", "T">>,
            <<"S", "Y", "N", "T", "H", "E", "S", "I", "S", "_", "V", "O", "I", "C", "E", "S">>>>
      [] r[1] = "Begin" ->
          <<<<"B", "L", "O", "C", "K">>,
            <<"B", "E", "G", "I", "N">>>>
      [] r[1] = "End" ->
          <<<<"B", "L", "O", "C", "K">>,
            <<"E", "N", "D">>>>
      [] r[1] = "HistoryGetClients" ->
          <<<<"H", "I", "S", "T", "O", "R", "Y">>,
            <<"G", "E", "T">>,
            <<"C", "L", "I", "E", "N", "T", "_", "L", "I", "S", "T">>>>
      [] r[1] = "HistoryGetClientId" ->
          <<<<"H", "I", "S", "T", "O", "R", "Y">>,
            <<"G", "E", "T">>,
            <<"C", "L", "I", "E", "N", "T", "_", "I", "D">>>>
      [] r[1] = "HistoryGetLastMsgId" ->
          <<<<"H", "I", "S", "T", "O", "R", "Y">>,
            <<"G", "E", "T">>,
            <<"L", "A", "S", "T">>>>
      [] r[1] = "HistoryGetClientMsgs" ->
          <<<<"H", "I", "S", "T", "O", "R", "Y">>,
            <<"G", "E", "T">>,
            <<"C", "L", "I", "E", "N", "T", "_", "M", "E", "S", "S", "A", "G", "E", "S">>,
            ScopeWord(r[2]),
            NatToChars(r[3]) \o <<"_">> \o NatToChars(r[4])>>
      [] r[1] = "HistoryGetMsg" ->
          <<<<"H", "I", "S", "T", "O", "R", "Y">>,
            <<"G", "E", "T">>,
            <<"M", "E", "S", "S", "A", "G", "E">>,
            NatToChars(r[2])>>
      [] r[1] = "HistoryCursorGet" ->
          <<<<"H", "I", "S", "T", "O", "R", "Y">>,
            <<"C", "U", "R", "S", "O", "R">>,
            <<"G", "E", "T">>>>
      [] r[1] = "HistoryCursorSet" ->
          <<<<"H", "I", "S", "T", "O", "R", "Y">>,
            <<"C", "U", "R", "S", "O", "R">>,
            <<"S", "E", "T">>,
            ScopeWord(r[2]),
            DisplayHistoryPosition(r[3])>>
      [] r[1] = "HistoryCursorMove" ->
          <<<<"H", "I", "S", "T", "O", "R", "Y">>,
            <<"C", "U", "R", "S", "O", "R">>,
            DisplayCursorDirection(r[2])>>
      [] r[1] = "HistorySpeak" ->
          <<<<"H", "I", "S", "T", "O", "R", "Y">>,
            <<"S", "A", "Y">>,
            NatToChars(r[2])>>
      [] r[1] = "HistorySort" ->
          <<<<"H", "I", "S", "T", "O", "R", "Y">>,
            <<"S", "O", "R", "T">>,
            DisplaySortDirection(r[2]),
            DisplaySortKey(r[3])>>
      [] r[1] = "HistorySetShortMsgLength" ->
          <<<<"H", "I", "S", "T", "O", "R", "Y">>,
            <<"S", "E", "T">>,
            <<"S", "H", "O", "R", "T", "_", "M", "E", "S", "S", "A", "G", "E", "_", "L", "E", "N", "G", "T", "H">>,
            NatToChars(r[2])>>
      [] r[1] = "HistorySetMsgTypeOrdering" ->
          <<<<"H", "I", "S", "T", "O", "R", "Y">>,
            <<"S", "E", "T">>,
            <<"M", "E", "S", "S", "A", "G", "E", "_", "T", "Y", "P", "E", "_", "O", "R", "D", "E", "R", "I", "N", "G">>,
            <<"\"">> \o JoinWords([i \in 1..Len(r[2]) |-> DisplayOrdering(r[2][i])]) \o <<"\"">>>>
      [] r[1] = "HistorySearch" ->
          <<<<"H", "I", "S", "T", "O", "R", "Y">>,
            <<"S", "E", "A", "R", "C", "H">>,
            ScopeWord(r[2]),
            <<"\"">> \o r[3] \o <<"\"">>>>
      [] r[1] = "Quit" ->
          <<<<"Q", "U", "I", "T">>>>
      [] r[1] = "SetRate" ->
          <<<<"S", "E", "T">>,
            ScopeWord(r[2]),
            <<"R", "A", "T", "E">>,
            IntToChars(Clamp(r[3]))>>
      [] r[1] = "SetPitch" ->
          <<<<"S", "E", "T">>,
            ScopeWord(r[2]),
            <<"P", "I", "T", "C", "H">>,
            IntToChars(Clamp(r[3]))>>
      [] r[1] = "SetVolume" ->
          <<<<"S", "E", "T">>,
            ScopeWord(r[2]),
            <<"V", "O", "L", "U", "M", "E">>,
            IntToChars(Clamp(r[3]))>>
      [] r[1] = "SetPunctuationMode" ->
          <<<<"S", "E", "T">>,
            ScopeWord(r[2]),
            <<"P", "U", "N", "C", "T", "U", "A", "T", "I", "O", "N">>,
            DisplayPunctuationMode(r[3])>>
      [] r[1] = "SetCapitalLettersRecognitionMode" ->
          <<<<"S", "E", "T">>,
            ScopeWord(r[2]),
            <<"C", "A", "P", "_", "L", "E", "T", "_", "R", "E", "C", "O", "G", "N">>,
            DisplayCapitalLettersRecognitionMode(r[3])>>
      [] r[1] = "SetOutputModule" ->
          <<<<"S", "E", "T">>,
            ScopeWord(r[2]),
            <<"O", "U", "T", "P", "U", "T", "_", "M", "O", "D", "U", "L", "E">>,
            r[3]>>
      [] r[1] = "SetLanguage" ->
          <<<<"S", "E", "T">>,
            ScopeWord(r[2]),
            <<"L", "A", "N", "G", "U", "A", "G", "E">>,
            r[3]>>
      [] r[1] = "SetVoiceType" ->
          <<<<"S", "E", "T">>,
            ScopeWord(r[2]),
            <<"V", "O", "I", "C", "E", "_", "T", "Y", "P", "E">>,
            r[3]>>
      [] r[1] = "SetSynthesisVoice" ->
          <<<<"S", "E", "T">>,
            ScopeWord(r[2]),
            <<"S", "Y", "N", "T", "H", "E", "S", "I", "S", "_", "V", "O", "I", "C", "E">>,
            r[3]>>
      [] r[1] = "SetSpelling" ->
          <<<<"S", "E", "T">>,
            ScopeWord(r[2]),
            <<"S", "P", "E", "L", "L", "I", "N", "G">>,
            OnOff(r[3])>>
      [] r[1] = "SetHistory" ->
          <<<<"S", "E", "T">>,
            ScopeWord(r[2]),
            <<"H", "I", "S", "T", "O", "R", "Y">>,
            OnOff(r[3])>>
      [] r[1] = "SetPauseContext" ->
          <<<<"S", "E", "T">>,
            ScopeWord(r[2]),
            <<"P", "A", "U", "S", "E", "_", "C", "O", "N", "T", "E", "X", "T">>,
            NatToChars(r[3])>>
      [] r[1] = "SetNotification" ->
          <<<<"S", "E", "T">>,
            <<"s", "e", "l", "f">>,
            <<"N", "O", "T", "I", "F", "I", "C", "A", "T", "I", "O", "N">>,
            DisplayNotificationType(r[2]),
            OnOff(r[3])>>

\* C24: every request other than SendLine and SendLines is written by send()
\* as exactly one command line in the documented format, terminated by CRLF
\* and flushed, its scopes written as self, all or the numeric id.
C24_OneCommandLine ==
    pc = "Sent" =>
        /\ IsOk(result)
        /\ output = <<>>
        /\ Chars(wire) = JoinWords(DocumentedWords(args)) \o CRLF
        /\ Cardinality({i \in 1..Len(wire) : wire[i].ch \in {CR, LF}}) = 2

----------------------------------------------------------------------------
(* Connecting and quitting: set_client_name, check_client_name_set, quit   *)
(* and the answer to QUIT, against a scripted server                       *)

\* The names a client connects with.
ClientNames ==
    { ClientNameNew(<<"t", "e", "s", "t">>, <<"t", "e", "s", "t">>),
      ClientNameNew(<<"j", "o", "e">>, <<"a", "p", "p">>),
      ClientNameNew(<<"t", "e", "s", "t">>, <<"a", "p", "p">>),
      with_component(<<"t", "e", "s", "t">>, <<"t", "e", "s", "t">>, <<"a">>) }

HappyHacking == Frame(231, <<>>, <<"H", "A", "P", "P", "Y", " ", "H", "A", "C", "K", "I", "N", "G">>)
ClientNameSet == Frame(208, <<>>, <<"O", "K", " ", "C", "L", "I", "E", "N", "T", " ", "N", "A", "M", "E", " ", "S", "E", "T">>)

\* The status lines a scripted server answers with.
StatusReplies ==
    { ClientNameSet, HappyHacking, ErrRateTooHigh,
      Frame(201, <<>>, <<"O", "K", " ", "L", "A", "N", "G", "U", "A", "G", "E", " ", "S", "E", "T">>),
      Frame(210, <<>>, <<"O", "K", " ", "S", "T", "O", "P", "P", "E", "D">>),
      Frame(299, <<>>, <<"O", "K", " ", "B", "U", "T", " ", "N", "O", "T", " ", "I", "M", "P", "L", "E", "M", "E", "N", "T", "E", "D">>),
      Frame(300, <<>>, <<"E", "R", "R", " ", "I", "N", "T", "E", "R", "N", "A", "L">>) }

\* The state after a call of the chain that wrote a request and left the
\* writer w: the chain goes on to `next` when the call returned Ok.
Requested(op, request, w, next) ==
    /\ ~panicked
    /\ output' = w.buf
    /\ wire' = w.wire
    /\ sockFree' = w.free
    /\ result' = IF w.err = "Ok" THEN Ok(<<"unit">>) ELSE Err(<<WriteError(w)>>)
    /\ pc' = IF w.err = "Ok" THEN next ELSE "Failed"
    /\ lastOp' = op
    /\ args' = request
    /\ afterSsip' = LastWasSsip
    /\ UNCHANGED <<queueVars, nonblocking, input, panicked, inflight, answered>>

\* Client::set_client_name, the first call on a connection.
SetClientName(client_name) ==
    /\ pc = "Idle"
    /\ Sent = 0
    /\ Requested("set_client_name", <<"SetName">> \o client_name,
                 send(Writer, <<"SetName">> \o client_name, Sent + 1), "NameSent")

\* Client::check_client_name_set, called when set_client_name returned Ok.
CheckClientNameSet ==
    /\ pc = "NameSent"
    /\ ReceivedWith("check_client_name_set", args, check_client_name_set(input))
    /\ pc' = IF IsOk(check_client_name_set(input).value) THEN "Named" ELSE "Failed"

\* Client::quit
Quit ==
    /\ pc = "Named"
    /\ Requested("quit", <<"Quit">>, send(Writer, <<"Quit">>, Sent + 1), "QuitSent")

\* Client::check_status(OK_BYE) on the answer to QUIT
QuitCheckStatus ==
    /\ pc = "QuitSent"
    /\ ReceivedWith("check_status", <<OK_BYE>>, check_status(input, OK_BYE))
    /\ pc' = "Closed"

\* Client::receive on the answer to QUIT
QuitReceive ==
    /\ pc = "QuitSent"
    /\ ReceivedWith("receive", <<>>, receive(input))
    /\ pc' = "Closed"

\* The scripted server answers the request it read.
ScriptedAnswer ==
    \E f \in StatusReplies : ServerAnswer(f)

CNext ==
    \/ \E client_name \in ClientNames : SetClientName(client_name)
    \/ CheckClientNameSet
    \/ Quit
    \/ QuitCheckStatus
    \/ QuitReceive
    \/ ScriptedAnswer

SpecC == RInit /\ [][CNext]_vars

\* C25: set_client_name(ClientName::new("test", "test")) writes exactly
\* `SET self CLIENT_NAME test:test:main` and CRLF; check_client_name_set
\* succeeds if and only if the code of the answer is 208; quit writes `QUIT`
\* and CRLF; the answer `231 HAPPY HACKING` is accepted by check_status(231)
\* and decoded by receive as Bye.
C25_ConnectAndQuit ==
    [][/\ (lastOp' = "set_client_name"
             /\ args' = <<"SetName", <<"t", "e", "s", "t">>, <<"t", "e", "s", "t">>, <<"m", "a", "i", "n">>>>) =>
             /\ Chars(wire') = <<"S", "E", "T", " ", "s", "e", "l", "f", " ", "C", "L", "I", "E", "N", "T", "_", "N", "A", "M", "E", " ", "t", "e", "s", "t", ":", "t", "e", "s", "t", ":", "m", "a", "i", "n">>
                                 \o CRLF
             /\ output' = <<>>
       /\ lastOp' = "check_client_name_set" =>
             /\ IsOk(result') <=> NextFrame.code = 208
             /\ input' = <<>>
       /\ lastOp' = "quit" =>
             /\ Chars(wire') = Chars(wire) \o <<"Q", "U", "I", "T">> \o CRLF
             /\ output' = <<>>
       /\ (lastOp' = "check_status" /\ NextFrame = HappyHacking) => IsOk(result')
       /\ (lastOp' = "receive" /\ NextFrame = HappyHacking) => result' = Ok(<<"Bye">>)
      ]_vars

C25_Witness ==
    /\ pc = "Closed"
    /\ lastOp = "receive"
    /\ result = Ok(<<"Bye">>)
    /\ Chars(wire) = <<"S", "E", "T", " ", "s", "e", "l", "f", " ", "C", "L", "I", "E", "N", "T", "_", "N", "A", "M", "E", " ", "t", "e", "s", "t", ":", "t", "e", "s", "t", ":", "m", "a", "i", "n">>
                       \o CRLF \o <<"Q", "U", "I", "T">> \o CRLF
    /\ answered = 2
    /\ input = <<>>

----------------------------------------------------------------------------
(* The integer getters: receive_i8 and receive_u8 on the answers to GET    *)
(* RATE, GET PITCH and GET VOLUME                                          *)

GetReturned == <<"O", "K", " ", "G", "E", "T", " ", "R", "E", "T", "U", "R", "N", "E", "D">>

\* The values the server reports for rate, pitch and volume.
RangeValues == -100 .. 100

\* Lines that are not the text of an integer.
NonNumericLines == { <<"a", "b", "c">>, <<"-">>, <<"1", "x">>, <<"1", " ", "0">> }

\* The answers of the server: a range value, a line that is no integer, or
\* an answer with another success code.
IntegerFrames ==
    { Frame(OK_GET, <<IntToChars(v)>>, GetReturned) : v \in RangeValues }
      \cup { Frame(OK_GET, <<line>>, GetReturned) : line \in NonNumericLines }
      \cup { Frame(OK_CUR_POS_RET, <<<<"5">>>>, <<"O", "K", " ", "C", "U", "R", "S", "O", "R", " ", "P", "O", "S", "I", "T", "I",   "O", "N", " ", "R", "E", "T", "U", "R", "N", "E", "D">>),
             Frame(OK_VOLUME_SET, <<>>, <<"O", "K", " ", "V", "O", "L", "U", "M", "E", " ", "S", "E", "T">>),
             Frame(OK_NOT_IMPLEMENTED, <<<<"5">>>>, <<"O", "K", " ", "B", "U", "T", " ", "N", "O", "T", " ", "I", "M", "P", "L", "E",   "M", "E", "N", "T", "E", "D">>) }

\* The server answers a getter; the client reads each answer before the next.
IntegerServerWrite ==
    /\ input = <<>>
    /\ \E f \in IntegerFrames : ServerNotify(f)

\* Client::receive_i8
IReceiveI8 == TReceived("receive_i8", <<OK_GET>>, receive_i8(input))

\* Client::receive_u8
IReceiveU8 == TReceived("receive_u8", <<OK_GET>>, receive_u8(input))

INext ==
    \/ IntegerServerWrite
    \/ IReceiveI8
    \/ IReceiveU8

SpecI == RInit /\ [][INext]_vars

\* C26: receive_i8 returns the signed 8-bit integer of a 251 answer for
\* every value in [-100, 100], negative values included; a line that is not
\* numeric gives InvalidData; a success code other than 251 gives
\* UnexpectedStatus.
C26_ReceiveI8 ==
    [][(lastOp' = "receive_i8" /\ inflight # <<>>) =>
          /\ NextFrame.code = OK_GET =>
                /\ \A v \in RangeValues :
                      NextFrame.lines = <<IntToChars(v)>> => result' = Ok(v)
                /\ NextFrame.lines[1] \in NonNumericLines => result' = invalid_data
          /\ NextFrame.code # OK_GET => result' = UnexpectedStatus(NextFrame.code)
          /\ input' = <<>>
      ]_vars

----------------------------------------------------------------------------
(* Parsing the lines of a voice list *)

VoiceNames == { <<"A", "m", "h", "a", "r", "i", "c">>, <<"e", "n">> }
VoiceLanguages == { T_none, <<"a", "m">>, <<>> }
VoiceDialects == { T_none, <<"A", "u", "n", "t", "i", "e">> }

\* Lines of one, two, three and four fields separated by tabs.
VoiceLines ==
    VoiceNames
      \cup { n \o <<TAB>> \o l : n \in VoiceNames, l \in VoiceLanguages }
      \cup { n \o <<TAB>> \o l \o <<TAB>> \o d :
                n \in VoiceNames, l \in VoiceLanguages, d \in VoiceDialects }
      \cup { n \o <<TAB>> \o l \o <<TAB>> \o d \o <<TAB, "x">> :
                n \in VoiceNames, l \in {<<"a", "m">>}, d \in VoiceDialects }

\* Lists of at most n lines of a voice list.
RECURSIVE VoiceLists(_)
VoiceLists(n) ==
    IF n = 0 THEN {<<>>}
    ELSE VoiceLists(n - 1)
           \cup { Append(ls, l) : ls \in { x \in VoiceLists(n - 1) : Len(x) = n - 1 },
                                  l \in VoiceLines }

\* The lines of a voice list, about to be parsed.
VInit ==
    /\ requests = <<>>
    /\ output = <<>>
    /\ wire = <<>>
    /\ sockFree = SockCap
    /\ nonblocking = FALSE
    /\ result = <<"none">>
    /\ pushCount = 0
    /\ blocked = FALSE
    /\ everBlocked = FALSE
    /\ lastOp = "new"
    /\ args \in VoiceLists(MaxVoices)
    /\ pc = "Idle"
    /\ input = <<>>
    /\ afterSsip = FALSE
    /\ panicked = FALSE
    /\ inflight = <<>>
    /\ answered = 0

\* parse_typed_lines::<SynthesisVoice>(&lines)
ParseVoices ==
    /\ pc = "Idle"
    /\ result' = parse_typed_lines(args, "SynthesisVoice")
    /\ lastOp' = "parse_typed_lines"
    /\ pc' = "Parsed"
    /\ UNCHANGED <<queueVars, writeVars, readVars, nonblocking, args>>

VNext == ParseVoices

SpecV == VInit /\ [][VNext]_vars

\* The position of the k-th tab of a line, 0 when there are fewer tabs.
NthTab(line, k) ==
    IF \E i \in 1..Len(line) :
          line[i] = TAB /\ Cardinality({j \in 1..i : line[j] = TAB}) = k
    THEN CHOOSE i \in 1..Len(line) :
          line[i] = TAB /\ Cardinality({j \in 1..i : line[j] = TAB}) = k
    ELSE 0

\* The line has a k-th field.
HasField(line, k) == k = 1 \/ NthTab(line, k - 1) # 0

\* The k-th field of a line that has one.
Field(line, k) ==
    SubSeq(line,
           IF k = 1 THEN 1 ELSE NthTab(line, k - 1) + 1,
           IF NthTab(line, k) = 0 THEN Len(line) ELSE NthTab(line, k) - 1)

\* A field that is missing or the word `none` is absent.
OptionalField(line, k) ==
    IF ~HasField(line, k) \/ Field(line, k) = <<"n", "o", "n", "e">> THEN <<"None">>
    ELSE <<"Some", Field(line, k)>>

\* C27: a line of a voice list parses into name, language and dialect, its
\* tab-separated fields; the word `none` for language or dialect is absent,
\* and so is a missing second or third field; parse_typed_lines returns one
\* voice per line, in order.
C27_SynthesisVoices ==
    pc = "Parsed" =>
        /\ IsOk(result)
        /\ Len(result[2]) = Len(args)
        /\ \A i \in 1..Len(args) :
              result[2][i] = [name |-> Field(args[i], 1),
                              language |-> OptionalField(args[i], 2),
                              dialect |-> OptionalField(args[i], 3)]

C27_Witness ==
    /\ pc = "Parsed"
    /\ args = << <<"e", "n">>, <<"A", "m", "h", "a", "r", "i", "c">> \o <<TAB>> \o <<"a", "m">> \o <<TAB>> \o T_none >>
    /\ result = Ok(<< [name |-> <<"e", "n">>, language |-> <<"None">>, dialect |-> <<"None">>],
                      [name |-> <<"A", "m", "h", "a", "r", "i", "c">>, language |-> <<"Some", <<"a", "m">>>>,
                       dialect |-> <<"None">>] >>)

----------------------------------------------------------------------------
(* The payload parsers over the continuation lines of an answer *)

PayloadLines == { <<"2", "1">>, <<"t", "e", "s", "t">>, <<>> }

\* Lists of at most n continuation lines.
RECURSIVE PayloadLists(_)
PayloadLists(n) ==
    IF n = 0 THEN {<<>>}
    ELSE PayloadLists(n - 1)
           \cup { Append(ls, l) : ls \in { x \in PayloadLists(n - 1) : Len(x) = n - 1 },
                                  l \in PayloadLines }

\* The continuation lines of an answer, about to be parsed.
LInit ==
    /\ requests = <<>>
    /\ output = <<>>
    /\ wire = <<>>
    /\ sockFree = SockCap
    /\ nonblocking = FALSE
    /\ result = <<"none">>
    /\ pushCount = 0
    /\ blocked = FALSE
    /\ everBlocked = FALSE
    /\ lastOp = "new"
    /\ args \in PayloadLists(MaxPayload)
    /\ pc = "Idle"
    /\ input = <<>>
    /\ afterSsip = FALSE
    /\ panicked = FALSE
    /\ inflight = <<>>
    /\ answered = 0

\* The state after a payload parser returned r.
PayloadParsed(op, r) ==
    /\ pc = "Idle"
    /\ result' = r
    /\ lastOp' = op
    /\ pc' = "Parsed"
    /\ UNCHANGED <<queueVars, writeVars, readVars, nonblocking, args>>

ParseSingleValue == PayloadParsed("parse_single_value", parse_single_value(args))

ParseSingleInteger == PayloadParsed("parse_single_integer", parse_single_integer(args))

ParseEventId == PayloadParsed("parse_event_id", parse_event_id(args))

LNext ==
    \/ ParseSingleValue
    \/ ParseSingleInteger
    \/ ParseEventId

SpecL == LInit /\ [][LNext]_vars

\* C28: parse_single_value and parse_single_integer return the value only
\* for exactly one line, TooFewLines for no line and TooManyLines for two or
\* more; parse_event_id returns the event id of message lines[0] and client
\* lines[1] only for exactly two lines, TooFewLines for fewer and
\* TooManyLines for more.
C28_PayloadLineCounts ==
    /\ lastOp = "parse_single_value" =>
          /\ Len(args) = 0 => result = TooFewLines
          /\ Len(args) = 1 => result = Ok(args[1])
          /\ Len(args) >= 2 => result = TooManyLines
    /\ lastOp = "parse_single_integer" =>
          /\ Len(args) = 0 => result = TooFewLines
          /\ args = <<<<"2", "1">>>> => result = Ok(21)
          /\ IsOk(result) => Len(args) = 1
          /\ Len(args) >= 2 => result = TooManyLines
    /\ lastOp = "parse_event_id" =>
          /\ Len(args) < 2 => result = TooFewLines
          /\ Len(args) = 2 => result = Ok([message |-> args[1], client |-> args[2]])
          /\ Len(args) > 2 => result = TooManyLines

C28_Witness ==
    /\ lastOp = "parse_event_id"
    /\ args = << <<"2", "1">>, <<"t", "e", "s", "t">> >>
    /\ result = Ok([message |-> <<"2", "1">>, client |-> <<"t", "e", "s", "t">>])

----------------------------------------------------------------------------
(* Inspecting the queue of a queued client: has_next, last and pop among   *)
(* pushes and sends                                                        *)

\* VecDeque::back
Back(q) == q[Len(q)]

\* The state after a call that only looks at the queue.
Inspected(op, r) ==
    /\ result' = r
    /\ lastOp' = op
    /\ UNCHANGED <<queueVars, writeVars, readVars, nonblocking, callVars>>

\* QueuedClient::last
last ==
    Inspected("last", IF requests = <<>> THEN <<"None">>
                      ELSE <<"Some", Back(requests).req>>)

\* QueuedClient::has_next
has_next == Inspected("has_next", <<"bool", requests # <<>>>>)

\* A driver pushes a request.
PushAny == \E request \in QueueRequests : push(request)

HNext ==
    \/ PushAny
    \/ pop
    \/ last
    \/ has_next
    \/ send_next
    \/ WritableEvent

SpecH == QInit /\ [][HNext]_vars

\* The pending request that was pushed most recently.
NewestPending ==
    CHOOSE r \in {requests[i] : i \in 1..Len(requests)} :
        \A i \in 1..Len(requests) : requests[i].id <= r.id

\* C29: has_next is true exactly when a pushed request is still pending;
\* last returns the pending request pushed most recently and removes
\* nothing; pop removes and returns that same request, not the head that
\* send_next would send, and returns None on an empty queue.
C29_QueueInspection ==
    [][/\ lastOp' = "has_next" =>
             /\ result' = <<"bool", Len(requests) > 0>>
             /\ requests' = requests
       /\ lastOp' = "last" =>
             /\ requests # <<>> => result' = <<"Some", NewestPending.req>>
             /\ requests = <<>> => result' = <<"None">>
             /\ requests' = requests
       /\ lastOp' = "pop" =>
             /\ requests # <<>> =>
                   /\ result' = <<"Ok", <<"Some", NewestPending.req>>>>
                   /\ {requests'[i] : i \in 1..Len(requests')}
                         = {requests[i] : i \in 1..Len(requests)} \ {NewestPending}
                   /\ Len(requests') = Len(requests) - 1
                   /\ Len(requests) > 1 => Head(requests') = Head(requests)
             /\ requests = <<>> => result' = <<"Ok", <<"None">>>> /\ requests' = <<>>
       /\ lastOp' \in {"has_next", "last", "pop"} => UNCHANGED <<output, wire, sockFree>>
      ]_vars

\* C29 witness: pop returned the newest of several pending requests, which
\* differs from the head left in the queue.
C29_Witness ==
    /\ lastOp = "pop"
    /\ requests # <<>>
    /\ result[2][1] = "Some"
    /\ result[2][2] # Head(requests).req
    /\ Head(requests).id = 1

----------------------------------------------------------------------------
(* A QueuedClient driven by an event loop against a scripted server        *)
(* (tests/mio_tests.rs).  The variable args holds the State of the loop    *)
(* (done, countdown, writable, start_get and the positions of its two      *)
(* iterators), the events of the last poll, the answers handed to the      *)
(* handler, and the side of the reactor and of the server: the readiness   *)
(* not yet reported, the polls that timed out, and whether the server      *)
(* closed the connection.  pc is the position in the loop.                 *)

PipeCap == 40       \* room of the transport: one command line fits
MaxTimeouts == 3    \* polls that time out while the server is at work

\* State::new: the iterations the loop may take.
COUNTDOWN == 50

get_requests == << <<"GetOutputModule">>, <<"GetRate">> >>
get_answers == << <<"e", "s", "p", "e", "a", "k">>, <<"1", "0">> >>

\* BASIC_COMMUNICATION: the questions the server expects, each with its answer.
BASIC_COMMUNICATION ==
    << [question |-> <<"S", "E", "T", " ", "s", "e", "l", "f", " ", "C", "L", "I", "E", "N", "T", "_", "N", "A", "M", "E", " ", "t", "e", "s", "t", ":", "t", "e", "s", "t", ":", "m", "a", "i", "n", CR, LF>>,
        answer |-> <<"2", "0", "8", " ", "O", "K", " ", "C", "L", "I", "E", "N", "T", " ", "N", "A", "M", "E", " ", "S", "E", "T", CR, LF>>],
       [question |-> <<"S", "E", "T", " ", "s", "e", "l", "f", " ", "L", "A", "N", "G", "U", "A", "G", "E", " ", "e", "n", CR, LF>>,
        answer |-> <<"2", "0", "1", " ", "O", "K", " ", "L", "A", "N", "G", "U", "A", "G", "E", " ", "S", "E", "T", CR, LF>>],
       [question |-> <<"S", "T", "O", "P", " ", "s", "e", "l", "f", CR, LF>>,
        answer |-> <<"2", "1", "0", " ", "O", "K", " ", "S", "T", "O", "P", "P", "E", "D", CR, LF>>],
       [question |-> <<"G", "E", "T", " ", "O", "U", "T", "P", "U", "T", "_", "M", "O", "D", "U", "L", "E", CR, LF>>,
        answer |-> <<"2", "5", "1", "-", "e", "s", "p", "e", "a", "k", CR, LF, "2", "5", "1", " ", "O", "K", " ", "G", "E", "T", " ", "R", "E", "T", "U", "R", "N", "E", "D", CR, LF>>],
       [question |-> <<"G", "E", "T", " ", "R", "A", "T", "E", CR, LF>>,
        answer |-> <<"2", "5", "1", "-", "1", "0", CR, LF, "2", "5", "1", " ", "O", "K", " ", "G", "E", "T", " ", "R", "E", "T", "U", "R", "N", "E", "D", CR, LF>>] >>

\* State after QueuedClient::new, register and the push of SetName, before
\* the first iteration: a fresh connection is writable.
LoopInit ==
    /\ requests = <<[req |-> <<"SetName">> \o ClientNameNew(<<"t", "e", "s", "t">>, <<"t", "e", "s", "t">>), id |-> 1]>>
    /\ output = <<>>
    /\ wire = <<>>
    /\ sockFree = PipeCap
    /\ nonblocking = TRUE
    /\ result = <<"none">>
    /\ pushCount = 1
    /\ blocked = FALSE
    /\ everBlocked = FALSE
    /\ lastOp = "push"
    /\ args = [done |-> FALSE, countdown |-> COUNTDOWN, writable |-> FALSE,
               start_get |-> FALSE, iter_requests |-> 1, iter_answers |-> 1,
               events |-> {}, delivered |-> <<>>, ready |-> {"output"},
               timeouts |-> 0, closed |-> FALSE]
    /\ pc = "Top"
    /\ input = <<>>
    /\ afterSsip = FALSE
    /\ panicked = FALSE
    /\ inflight = <<>>
    /\ answered = 0

\* State::terminated and State::must_send
terminated(s) == s.done \/ s.countdown = 0
must_send(s) == s.writable /\ s.countdown > 0

\* The condition under which the loop calls poll.
MustPoll == ~args.writable \/ requests = <<>>

\* The server has nothing left to do for the client.
ServerIdle ==
    \/ args.closed
    \/ sockFree = PipeCap /\ answered = Sent

\* The head of an iteration: poll returns the readiness not yet reported
\* (or is skipped and the events of the last poll stay), and the countdown
\* is decremented.
PollStep ==
    /\ pc = "Top"
    /\ ~terminated(args)
    /\ MustPoll => args.ready # {}
    /\ args' = [args EXCEPT !.events = IF MustPoll THEN args.ready ELSE @,
                            !.ready = IF MustPoll THEN {} ELSE @,
                            !.countdown = @ - 1]
    /\ pc' = "Events"
    /\ lastOp' = "poll"
    /\ UNCHANGED <<queueVars, writeVars, nonblocking, result, readVars>>

\* poll returns after its timeout with no event.
PollTimeout ==
    /\ pc = "Top"
    /\ ~terminated(args)
    /\ MustPoll
    /\ args.ready = {}
    /\ args.timeouts < MaxTimeouts \/ ServerIdle
    /\ args' = [args EXCEPT !.events = {},
                            !.countdown = @ - 1,
                            !.timeouts = Min(MaxTimeouts, @ + 1)]
    /\ pc' = "Events"
    /\ lastOp' = "timeout"
    /\ UNCHANGED <<queueVars, writeVars, nonblocking, result, readVars>>

\* The match of the loop on a response: the state of the loop, the requests
\* it pushes, and whether it panics.
on_response(s, response) ==
    CASE response[1] = "ClientNameSet" ->
            [state |-> s, pushes |-> << <<"SetLanguage", <<"Current">>, <<"e", "n">>>> >>,
             panic |-> FALSE]
      [] response[1] = "LanguageSet" ->
            [state |-> s, pushes |-> << <<"Stop", <<"Last">>>> >>, panic |-> FALSE]
      [] response[1] = "Stopped" ->
            [state |-> [s EXCEPT !.start_get = TRUE], pushes |-> <<>>, panic |-> FALSE]
      [] response[1] = "Get" ->
            IF s.iter_answers <= Len(get_answers)
                 /\ get_answers[s.iter_answers] = response[2]
            THEN [state |-> [s EXCEPT !.iter_answers = @ + 1], pushes |-> <<>>,
                  panic |-> FALSE]
            ELSE [state |-> s, pushes |-> <<>>, panic |-> TRUE]
      [] OTHER -> [state |-> s, pushes |-> <<>>, panic |-> TRUE]

\* A handler that takes the exchange for done as soon as the gets may start.
after_response_done_early(h) ==
    IF h.state.start_get THEN [h EXCEPT !.state.done = TRUE] ELSE h

\* State::next_request and what the loop does with it, after the match.
after_response(h) ==
    IF h.state.start_get /\ h.state.iter_requests <= Len(get_requests)
    THEN [h EXCEPT !.state.iter_requests = @ + 1,
                   !.pushes = Append(@, get_requests[h.state.iter_requests])]
    ELSE IF h.state.start_get
         THEN [h EXCEPT !.state.done = TRUE]
         ELSE h

\* QueuedClient::push of each request of a sequence.
RECURSIVE PushAll(_, _, _)
PushAll(q, pushes, n) ==
    IF pushes = <<>> THEN q
    ELSE PushAll(Append(q, [req |-> Head(pushes), id |-> n + 1]), Tail(pushes), n + 1)

\* The bytes the client reads from: what has arrived, up to the end of the
\* connection when the server closed it.
Incoming == IF args.closed THEN input ELSE Available(input)

\* The outcome r of receive_next on a readable event: an error leaves the
\* loop.
ReceivedNext(r) ==
    /\ input' = Unread(r.rest)
    /\ result' = r.value
    /\ panicked' = (r.value = Panic)
    /\ pc' = IF IsOk(r.value) THEN "Handle"
             ELSE IF r.value = Panic THEN "Panicked" ELSE "Failed"

\* The input arm of the loop: QueuedClient::receive_next.
ReceiveNext ==
    /\ pc = "Events"
    /\ "input" \in args.events
    /\ ReceivedNext(receive(Incoming))
    /\ lastOp' = "receive_next"
    /\ UNCHANGED <<queueVars, writeVars, nonblocking, afterSsip, inflight, answered,
                   args>>

\* The handler made h of the response; the writable flag is set when the
\* poll reported the output too.
Delivered(response, h) ==
    /\ args' = [h.state EXCEPT !.delivered = Append(@, response),
                               !.writable = @ \/ "output" \in args.events]
    /\ requests' = PushAll(requests, h.pushes, pushCount)
    /\ pushCount' = pushCount + Len(h.pushes)
    /\ panicked' = h.panic
    /\ pc' = IF h.panic THEN "Panicked" ELSE "Send"

\* The match on the response that receive_next returned, and the push of
\* the next request.
HandleResponse ==
    /\ pc = "Handle"
    /\ Delivered(result[2], after_response(on_response(args, result[2])))
    /\ lastOp' = "handle"
    /\ UNCHANGED <<writeVars, nonblocking, result, blocked, everBlocked, input,
                   afterSsip, inflight, answered>>

\* A poll that reported no input: the writable flag is set on a writable
\* event.
HandleEvents ==
    /\ pc = "Events"
    /\ "input" \notin args.events
    /\ args' = [args EXCEPT !.writable = @ \/ "output" \in args.events]
    /\ pc' = "Send"
    /\ lastOp' = "events"
    /\ UNCHANGED <<queueVars, writeVars, nonblocking, result, readVars>>

\* send_next on a queue that is not empty: the head is taken from the queue
\* and w is the writer after its send.
SentNext(head, w) ==
    /\ requests' = head.rest
    /\ output' = w.buf
    /\ wire' = w.wire
    /\ sockFree' = w.free
    /\ IF w.err # "Ok"
       THEN /\ result' = <<"Err", <<WriteError(w)>>>>
            /\ blocked' = TRUE
            /\ everBlocked' = TRUE
            /\ args' = [args EXCEPT !.writable = (WriteError(w) # "NotReady") /\ @]
            /\ pc' = IF WriteError(w) = "NotReady" THEN "Top" ELSE "Failed"
       ELSE /\ result' = <<"Ok", <<"bool", TRUE>>>>
            /\ pc' = "Top"
            /\ UNCHANGED <<blocked, everBlocked, args>>

\* The end of an iteration: send_next when the output is known writable;
\* NotReady clears the flag, any other error leaves the loop.
SendStep ==
    /\ pc = "Send"
    /\ lastOp' = "send_next"
    /\ IF must_send(args) /\ requests # <<>>
       THEN SentNext(PopFront(requests),
                     send(Writer, PopFront(requests).item.req, PopFront(requests).item.id))
       ELSE /\ result' = IF must_send(args) THEN <<"Ok", <<"bool", FALSE>>>> ELSE result
            /\ pc' = "Top"
            /\ UNCHANGED <<requests, writeVars, blocked, everBlocked, args>>
    /\ UNCHANGED <<nonblocking, pushCount, readVars>>

\* The loop ends and the test returns the countdown.
Exit ==
    /\ pc = "Top"
    /\ terminated(args)
    /\ pc' = "Exited"
    /\ result' = Ok(<<"countdown", args.countdown>>)
    /\ lastOp' = "exit"
    /\ UNCHANGED <<queueVars, writeVars, nonblocking, readVars, args>>

\* serve_streams reads bytes of a question from the transport; the reactor
\* reports the output writable again when a write had found it full.
ServerReads ==
    /\ sockFree < PipeCap
    /\ ~args.closed
    /\ \E n \in DrainSizes : sockFree' = Min(PipeCap, sockFree + n)
    /\ blocked' = FALSE
    /\ args' = [args EXCEPT !.ready = IF blocked THEN @ \cup {"output"} ELSE @]
    /\ lastOp' = "server_reads"
    /\ UNCHANGED <<requests, output, wire, nonblocking, result, pushCount,
                   everBlocked, readVars, pc>>

\* serve_streams has read a line of a question: it writes the answer of
\* the script when the line is the expected one, and ends the connection
\* otherwise.
ServerAnswers ==
    /\ sockFree = PipeCap
    /\ ~args.closed
    /\ answered < Sent
    /\ answered < Len(BASIC_COMMUNICATION)
    /\ Question(answered + 1)[Len(Question(answered + 1))] = LF
    /\ IF Question(answered + 1) = BASIC_COMMUNICATION[answered + 1].question
       THEN /\ input' = input \o BASIC_COMMUNICATION[answered + 1].answer
            /\ args' = [args EXCEPT !.ready = @ \cup {"input"}]
       ELSE /\ input' = input
            /\ args' = [args EXCEPT !.ready = @ \cup {"input"}, !.closed = TRUE]
    /\ answered' = answered + 1
    /\ lastOp' = "server_answers"
    /\ UNCHANGED <<queueVars, writeVars, nonblocking, result, afterSsip, panicked,
                   inflight, pc>>

LoopNext ==
    \/ PollStep
    \/ PollTimeout
    \/ ReceiveNext
    \/ HandleResponse
    \/ HandleEvents
    \/ SendStep
    \/ Exit
    \/ ServerReads
    \/ ServerAnswers

\* Weak fairness of an action of the loop with its enabling condition
\* written out: pc says which step of the loop is next.
FairReceiveNext ==
    []<>~(pc = "Events" /\ "input" \in args.events) \/ []<><<ReceiveNext>>_vars
FairSendStep == []<>(pc # "Send") \/ []<><<SendStep>>_vars

\* The loop runs on, a poll returns at an event or at its timeout, and the
\* server reads and answers what it was sent.
SpecLoop ==
    /\ LoopInit
    /\ [][LoopNext]_vars
    /\ WF_vars(PollStep)
    /\ WF_vars(PollTimeout)
    /\ FairReceiveNext
    /\ WF_vars(HandleResponse)
    /\ WF_vars(HandleEvents)
    /\ FairSendStep
    /\ WF_vars(Exit)
    /\ WF_vars(ServerReads)
    /\ WF_vars(ServerAnswers)

\* The five command lines of the exchange, as the server reads them.
FiveCommandLines ==
    Concat([i \in 1..Len(BASIC_COMMUNICATION) |-> BASIC_COMMUNICATION[i].question])

\* The five responses of the exchange, in order.
FiveResponses ==
    << <<"ClientNameSet">>, <<"LanguageSet">>, <<"Stopped">>,
       <<"Get", get_answers[1]>>, <<"Get", get_answers[2]>> >>

\* The loop has ended on done with iterations to spare, the transport holds
\* the five command lines and the handler got the five responses.
ExchangeCompleted ==
    /\ pc = "Exited"
    /\ args.done
    /\ args.countdown > 0
    /\ result = Ok(<<"countdown", args.countdown>>)
    /\ Chars(wire) = FiveCommandLines
    /\ output = <<>>
    /\ answered = Len(BASIC_COMMUNICATION)
    /\ args.delivered = FiveResponses
    /\ input = <<>>

\* C30: driven by the event loop (send_next only while the output is known
\* writable, the flag cleared on NotReady until the next writable event,
\* receive_next on each readable event, the next request pushed from the
\* response handler), the queued client completes the exchange: the server
\* sees the five command lines in order (SetName, SetLanguage, Stop,
\* GetOutputModule, GetRate), the handler is given the five responses in
\* order (208, 201, 210, 251 "espeak", 251 "10"), and the loop ends with
\* iterations of its countdown to spare.
C30_ExchangeCompletes == <>ExchangeCompleted

\* C30 witness: the loop ended after six iterations, no poll having timed
\* out, with the whole exchange done.
C30_Witness ==
    /\ pc = "Exited"
    /\ args.done
    /\ args.countdown = COUNTDOWN - 6
    /\ args.timeouts = 0
    /\ Len(args.delivered) = 5
    /\ args.delivered[5] = <<"Get", <<"1", "0">>>>
    /\ Chars(wire) = FiveCommandLines

----------------------------------------------------------------------------
(* The bytes of each request across a would-block (checked under SpecQ) *)

\* The bytes of the request pushed as number rq among some bytes.
BytesOf(bytes, rq) == SelectSeq(bytes, LAMBDA b : b.rq = rq)

\* The bytes of the other requests among some bytes.
BytesOfOthers(bytes, rq) == SelectSeq(bytes, LAMBDA b : b.rq # rq)

\* C31: no request is lost, duplicated or truncated by a would-block: when
\* send_next has removed a request from the queue, the bytes handed to the
\* transport followed by those the write buffer retains hold the complete
\* byte sequence of the request (every line with its CRLF) exactly once,
\* and the bytes of the requests sent before it are as they were.
C31_NoRequestLost ==
    [][(lastOp' = "send_next" /\ requests # <<>>) =>
         /\ BytesOf(wire' \o output', Head(requests).id)
              = Tag(ExpectedWire(Head(requests).req), Head(requests).id)
         /\ BytesOfOthers(wire' \o output', Head(requests).id) = wire \o output
      ]_vars

----------------------------------------------------------------------------
(* A response frame that reaches the non-blocking client in two parts.     *)
(* inflight holds the frames the server has written and the client has not *)
(* yet been given as a response, each with the number of its bytes that    *)
(* have arrived.                                                           *)

\* The frames of the server.
PartFrames == {ClientNameSet, MessageQueued, RateReturned}

\* The server writes a frame: a first part of its bytes arrives.
ServerBegins(f, n) ==
    /\ Len(inflight) < MaxInflight
    /\ answered + Len(inflight) < MaxSends
    /\ inflight # <<>> => inflight[Len(inflight)].arrived = Len(FrameBytes(inflight[Len(inflight)].frame))
    /\ n \in 1..Len(FrameBytes(f))
    /\ inflight' = Append(inflight, [frame |-> f, arrived |-> n])
    /\ input' = input \o SubSeq(FrameBytes(f), 1, n)
    /\ lastOp' = "arrive"
    /\ UNCHANGED <<queueVars, writeVars, nonblocking, result, afterSsip, panicked,
                   answered, callVars>>

ServerBeginsFrame == \E f \in PartFrames : \E n \in 1..Len(FrameBytes(f)) : ServerBegins(f, n)

\* The rest of the bytes of the last frame arrives.
RestArrives ==
    /\ inflight # <<>>
    /\ inflight[Len(inflight)].arrived < Len(FrameBytes(inflight[Len(inflight)].frame))
    /\ input' = input \o Drop(FrameBytes(inflight[Len(inflight)].frame),
                               inflight[Len(inflight)].arrived)
    /\ inflight' = [inflight EXCEPT ![Len(inflight)].arrived =
                                        Len(FrameBytes(inflight[Len(inflight)].frame))]
    /\ lastOp' = "arrive"
    /\ UNCHANGED <<queueVars, writeVars, nonblocking, result, afterSsip, panicked,
                   answered, callVars>>

\* The outcomes of a read that found no complete line.
WouldBlockResults == {NotReady, Err(IoError("WouldBlock"))}

\* QueuedClient::receive_next with outcome r, called when bytes have
\* arrived: an outcome other than a would-block ends the wait for the
\* oldest frame.
ReceivedPart(r) ==
    /\ result' = r.value
    /\ input' = Unread(r.rest)
    /\ panicked' = (r.value = Panic)
    /\ inflight' = IF r.value \in WouldBlockResults THEN inflight ELSE Tail(inflight)
    /\ answered' = IF r.value \in WouldBlockResults THEN answered ELSE answered + 1

ReceiveNextOnReadable ==
    /\ ~panicked
    /\ inflight # <<>>
    /\ input # <<>>
    /\ ReceivedPart(receive(Available(input)))
    /\ lastOp' = "receive_next"
    /\ UNCHANGED <<queueVars, writeVars, nonblocking, afterSsip, callVars>>

FNext ==
    \/ ServerBeginsFrame
    \/ RestArrives
    \/ ReceiveNextOnReadable

SpecF == QInit /\ [][FNext]_vars

\* C32: when the transport would-block after some but not all lines or
\* bytes of a frame were read, no part of the frame is lost: the
\* receive_next that no longer would-block returns the Response a blocking
\* receive of the whole frame returns, with all its continuation lines.
C32_PartialFrameKept ==
    [][(lastOp' = "receive_next" /\ result' \notin WouldBlockResults) =>
          result' = receive(FrameBytes(Head(inflight).frame)).value
      ]_vars

----------------------------------------------------------------------------
(* The typed-receive helpers on frames the server wrote ahead.  inflight   *)
(* keeps every frame the server wrote, read or not.                        *)

\* The server writes a frame, whatever the client has read.
ServerWritesAhead(f) ==
    /\ Len(inflight) < MaxInflight
    /\ inflight' = Append(inflight, [frame |-> f])
    /\ input' = input \o FrameBytes(f)
    /\ lastOp' = "server"
    /\ UNCHANGED <<queueVars, writeVars, nonblocking, result, afterSsip, panicked,
                   answered, callVars>>

ServerWritesAny == \E f \in TypedFrames : ServerWritesAhead(f)

\* The stream after the call of a typed helper that returned r.
HelperReturned(op, a, r) ==
    /\ ~panicked
    /\ input # <<>>
    /\ result' = r.value
    /\ input' = r.rest
    /\ panicked' = (r.value = Panic)
    /\ lastOp' = op
    /\ args' = a
    /\ UNCHANGED <<queueVars, writeVars, nonblocking, afterSsip, inflight, answered,
                   pc>>

\* Client::check_status
ACheckStatus ==
    HelperReturned("check_status", <<OK_CLIENT_NAME_SET>>,
                   check_status(input, OK_CLIENT_NAME_SET))

\* Client::receive_lines
AReceiveLines ==
    HelperReturned("receive_lines", <<OK_GET>>, receive_lines(input, OK_GET))

\* Client::receive_string
AReceiveString ==
    HelperReturned("receive_string", <<OK_GET>>, receive_string(input, OK_GET))

\* Client::receive_message_id
AReceiveMessageId ==
    HelperReturned("receive_message_id", <<>>, receive_message_id(input))

ANext ==
    \/ ServerWritesAny
    \/ ACheckStatus
    \/ AReceiveLines
    \/ AReceiveString
    \/ AReceiveMessageId

SpecA == RInit /\ [][ANext]_vars

\* The frames the server wrote from the i-th on.
FramesFrom(i) == SubSeq(inflight, i, Len(inflight))

\* The call read one frame of the server whole and nothing else.
ReadOneFrame ==
    \E i \in 1..Len(inflight) :
        /\ input = UnreadBytes(FramesFrom(i))
        /\ input' = UnreadBytes(FramesFrom(i + 1))

\* The helper returned the error it returns for a response code it does
\* not expect.
CodeError(op, r) ==
    \/ /\ op \in {"check_status", "receive_lines", "receive_string"}
       /\ r[1] = "Err"
       /\ r[2][1] = "UnexpectedStatus"
    \/ op = "receive_message_id" /\ r = invalid_data

\* C33: whenever check_status, receive_lines, receive_string or
\* receive_message_id returns UnexpectedStatus or InvalidData because of the
\* response code, it has read exactly one complete frame, so that the
\* stream stays frame-aligned, also when the response carries continuation
\* lines.
C33_CodeErrorReadsOneFrame ==
    [][CodeError(lastOp', result') => ReadOneFrame]_vars

----------------------------------------------------------------------------
(* Every send operation of the client, over a blocking and over a          *)
(* non-blocking stream whose transport the server empties now and then     *)

\* The requests that carry speak data.
DataRequests ==
    {<<"SendLine", t>> : t \in Texts} \cup {<<"SendLines", ls>> : ls \in LinesUpTo(MaxLines)}

\* One request of every variant that send() writes as one command line.
OneOfEachVariant ==
    { CHOOSE r \in CommandRequests : r[1] = v : v \in {r[1] : r \in CommandRequests} }

\* The requests sent after a request of the queued client; any other
\* request is sent on the fresh connection.
ChainedRequests == QueueRequests \cup DataRequests

\* State after Client::new on a fresh connection, blocking or not.
WInit ==
    /\ requests = <<>>
    /\ output = <<>>
    /\ wire = <<>>
    /\ sockFree = SockCap
    /\ nonblocking \in BOOLEAN
    /\ result = <<"none">>
    /\ pushCount = 0
    /\ blocked = FALSE
    /\ everBlocked = FALSE
    /\ lastOp = "new"
    /\ args = <<>>
    /\ pc = "Idle"
    /\ input = <<>>
    /\ afterSsip = FALSE
    /\ panicked = FALSE
    /\ inflight = <<>>
    /\ answered = 0

\* The state after a send operation on `request` that left the writer w:
\* the first request of the connection, or a second one after a request
\* of the queued client; after a would-block the driver waits for the
\* writable event.
Wrote(op, request, w) ==
    /\ Sent < MaxSends
    /\ ~blocked
    /\ lastOp = "new" \/ (Sent = 1 /\ args \in QueueRequests /\ request \in ChainedRequests)
    /\ output' = w.buf
    /\ wire' = w.wire
    /\ sockFree' = w.free
    /\ result' = IF w.err = "Ok" THEN Ok(<<"unit">>) ELSE Err(<<WriteError(w)>>)
    /\ blocked' = (w.err # "Ok")
    /\ everBlocked' = (everBlocked \/ w.err # "Ok")
    /\ lastOp' = op
    /\ args' = request
    /\ UNCHANGED <<requests, pushCount, readVars, nonblocking, pc>>

\* Client::send
WSend(request) == Wrote("send", request, send(Writer, request, Sent + 1))

\* Client::send_line
WSendLine(line) ==
    Wrote("send_line", <<"SendLine", line>>, send_line(Writer, line, Sent + 1))

\* Client::send_lines
WSendLines(lines) ==
    Wrote("send_lines", <<"SendLines", lines>>, send_lines(Writer, lines, Sent + 1))

WSendAny == \E request \in OneOfEachVariant \cup ChainedRequests : WSend(request)
WSendAnyLine == \E line \in Texts : WSendLine(line)
WSendAnyLines == \E lines \in LinesUpTo(MaxLines) : WSendLines(lines)

WNext ==
    \/ WSendAny
    \/ WSendAnyLine
    \/ WSendAnyLines
    \/ WritableEvent

SpecW == WInit /\ [][WNext]_vars

SendOps == {"send", "send_line", "send_lines"}

\* C34: every send operation ends with a flush: when send (for any request),
\* send_line or send_lines returns Ok, the write buffer is empty and the
\* bytes it held followed by all the bytes of the request have been handed
\* to the transport.
C34_SendsFlush ==
    [][(lastOp' \in SendOps /\ IsOk(result')) =>
          /\ output' = <<>>
          /\ wire' = wire \o output \o Tag(ExpectedWire(args'), Sent + 1)
      ]_vars

\* C34 witness: over a non-blocking stream a send had left bytes in the
\* write buffer, and a later send returned Ok with the buffer empty and the
\* bytes of both requests on the transport.
C34_Witness ==
    /\ lastOp \in SendOps
    /\ IsOk(result)
    /\ nonblocking
    /\ everBlocked
    /\ output = <<>>
    /\ \E i \in 1..Len(wire) : wire[i].rq = 1
    /\ wire[Len(wire)].rq = 2

----------------------------------------------------------------------------
(* The mio AsyncClient: the queue of the types of the GET requests sent    *)

\* GetType of a request: the type send_next pushes before it sends a GET.
GetTypeOf(request) ==
    CASE request[1] \in {"GetOutputModule", "GetLanguage", "GetVoiceType"} -> "StringType"
      [] request[1] \in {"GetRate", "GetPitch", "GetVolume"} -> "IntegerType"
      [] OTHER -> "None"

\* push_get_string and push_get_int, for the request send_next took.
push_get(get_types, request) ==
    IF GetTypeOf(request) = "None" THEN get_types
    ELSE Append(get_types, GetTypeOf(request))

InvalidType == Err(<<"InvalidType">>)

\* i8::MAX and the magnitude of i8::MIN as written
MaxI8 == <<"1", "2", "7">>
MinI8 == <<"1", "2", "8">>

\* str::parse::<i8> mapped as the OK_GET arm maps it: an optional sign, at
\* least one digit, the value within the range of the type.
parse_i8(s) ==
    LET negative == s # <<>> /\ s[1] = "-"
        body == IF s # <<>> /\ s[1] \in {"+", "-"} THEN Tail(s) ELSE s
    IN  IF body = <<>> \/ \E i \in 1..Len(body) : ~IsDigit(body[i]) THEN InvalidType
        ELSE IF ~DigitsLeq(StripZeros(body), IF negative THEN MinI8 ELSE MaxI8)
        THEN InvalidType
        ELSE Ok(<<"GetInteger",
                  IF negative THEN 0 - DigitsValue(StripZeros(body))
                  ELSE DigitsValue(StripZeros(body))>>)

\* The arms of AsyncClient::receive_next that leave get_types alone.
mio_response(status, lines) ==
    LET code == status.code IN
    CASE code = OK_LANGUAGE_SET -> Ok(<<"LanguageSet">>)
      [] code = OK_PRIORITY_SET -> Ok(<<"PrioritySet">>)
      [] code = OK_RATE_SET -> Ok(<<"RateSet">>)
      [] code = OK_PITCH_SET -> Ok(<<"PitchSet">>)
      [] code = OK_PUNCTUATION_SET -> Ok(<<"PunctuationSet">>)
      [] code = OK_CAP_LET_RECOGN_SET -> Ok(<<"CapLetRecognSet">>)
      [] code = OK_SPELLING_SET -> Ok(<<"SpellingSet">>)
      [] code = OK_CLIENT_NAME_SET -> Ok(<<"ClientNameSet">>)
      [] code = OK_VOICE_SET -> Ok(<<"VoiceSet">>)
      [] code = OK_STOPPED -> Ok(<<"Stopped">>)
      [] code = OK_PAUSED -> Ok(<<"Paused">>)
      [] code = OK_RESUMED -> Ok(<<"Resumed">>)
      [] code = OK_CANCELED -> Ok(<<"Canceled">>)
      [] code = OK_TABLE_SET -> Ok(<<"TableSet">>)
      [] code = OK_OUTPUT_MODULE_SET -> Ok(<<"OutputModuleSet">>)
      [] code = OK_PAUSE_CONTEXT_SET -> Ok(<<"PauseContextSet">>)
      [] code = OK_VOLUME_SET -> Ok(<<"VolumeSet">>)
      [] code = OK_SSML_MODE_SET -> Ok(<<"SsmlModeSet">>)
      [] code = OK_NOTIFICATION_SET ->
            IF status.message = MSG_CURSOR_SET_FIRST
            THEN Ok(<<"HistoryCurSetFirst">>)
            ELSE Ok(<<"NotificationSet">>)
      [] code = OK_CUR_SET_LAST -> Ok(<<"HistoryCurSetLast">>)
      [] code = OK_CUR_SET_POS -> Ok(<<"HistoryCurSetPos">>)
      [] code = OK_PITCH_RANGE_SET -> Ok(<<"PitchRangeSet">>)
      [] code = OK_DEBUG_SET -> Ok(<<"DebugSet">>)
      [] code = OK_CUR_MOV_FOR -> Ok(<<"HistoryCurMoveFor">>)
      [] code = OK_CUR_MOV_BACK -> Ok(<<"HistoryCurMoveBack">>)
      [] code = OK_MESSAGE_QUEUED -> Ok(<<"MessageQueued">>)
      [] code = OK_SND_ICON_QUEUED -> Ok(<<"SoundIconQueued">>)
      [] code = OK_MSG_CANCELED -> Ok(<<"MessageCanceled">>)
      [] code = OK_RECEIVING_DATA -> Ok(<<"ReceivingData">>)
      [] code = OK_BYE -> Ok(<<"Bye">>)
      [] code = OK_CLIENTS_LIST_SENT -> Ok(<<"HistoryClientListSent", lines>>)
      [] code = OK_MSGS_LIST_SENT -> Ok(<<"HistoryMsgsListSent", lines>>)
      [] code = OK_LAST_MSG -> Wrap("HistoryLastMsg", parse_single_value(lines))
      [] code = OK_CUR_POS_RET -> Wrap("HistoryCurPosRet", parse_single_value(lines))
      [] code = OK_TABLE_LIST_SENT -> Ok(<<"TableListSent", lines>>)
      [] code = OK_CLIENT_ID_SENT -> Wrap("HistoryClientIdSent", parse_single_value(lines))
      [] code = OK_MSG_TEXT_SENT -> Ok(<<"MessageTextSent">>)
      [] code = OK_HELP_SENT -> Ok(<<"HelpSent", lines>>)
      [] code = OK_VOICES_LIST_SENT ->
            Wrap("VoicesListSent", parse_typed_lines(lines, "SynthesisVoice"))
      [] code = OK_OUTPUT_MODULES_LIST_SENT -> Ok(<<"OutputModulesListSent", lines>>)
      [] code = OK_INSIDE_BLOCK -> Ok(<<"InsideBlock">>)
      [] code = OK_OUTSIDE_BLOCK -> Ok(<<"OutsideBlock">>)
      [] code = OK_NOT_IMPLEMENTED -> Ok(<<"NotImplemented">>)
      [] code = EVENT_INDEX_MARK ->
            IF Len(lines) = 3
            THEN LET id == parse_event_id(lines) IN
                 IF IsErr(id) THEN id ELSE Ok(<<"EventIndexMark", id[2], lines[3]>>)
            ELSE TooFewLines
      [] code = EVENT_BEGIN -> Wrap("EventBegin", parse_event_id(lines))
      [] code = EVENT_END -> Wrap("EventEnd", parse_event_id(lines))
      [] code = EVENT_CANCELED -> Wrap("EventCanceled", parse_event_id(lines))
      [] code = EVENT_PAUSED -> Wrap("EventPaused", parse_event_id(lines))
      [] code = EVENT_RESUMED -> Wrap("EventResumed", parse_event_id(lines))
      [] OTHER -> Panic

\* The OK_GET arm: the value is parsed, then the type at the front of
\* get_types is taken and says how the value is returned.  Gives the result
\* and the queue left.
ok_get(lines, get_types) ==
    LET sval == parse_single_value(lines) IN
    IF IsErr(sval) THEN [value |-> sval, get_types |-> get_types]
    ELSE IF get_types = <<>> THEN [value |-> Panic, get_types |-> get_types]
    ELSE [value |-> IF PopFront(get_types).item = "StringType"
                    THEN Ok(<<"GetString", sval[2]>>)
                    ELSE parse_i8(sval[2]),
          get_types |-> PopFront(get_types).rest]

\* AsyncClient::receive_next on the unread bytes: [value, get_types, rest].
mio_receive_next(stream, get_types) ==
    LET a == receive_answer(stream, <<>>, TRUE) IN
    IF IsErr(a.status)
    THEN [value |-> a.status, get_types |-> get_types, rest |-> a.rest]
    ELSE IF a.status[2].code = OK_GET
    THEN [value |-> ok_get(a.lines, get_types).value,
          get_types |-> ok_get(a.lines, get_types).get_types, rest |-> a.rest]
    ELSE [value |-> mio_response(a.status[2], a.lines), get_types |-> get_types,
          rest |-> a.rest]

\* The requests pushed to the mio client.
MioRequests == {<<"GetOutputModule">>, <<"GetRate">>, <<"Speak">>}

\* State after AsyncClient::new on a transport with room for two requests.
GInit ==
    /\ requests = <<>>
    /\ output = <<>>
    /\ wire = <<>>
    /\ sockFree = PipeCap
    /\ nonblocking = TRUE
    /\ result = <<"none">>
    /\ pushCount = 0
    /\ blocked = FALSE
    /\ everBlocked = FALSE
    /\ lastOp = "new"
    /\ args = [get_types |-> <<>>]
    /\ pc = "Idle"
    /\ input = <<>>
    /\ afterSsip = FALSE
    /\ panicked = FALSE
    /\ inflight = <<>>
    /\ answered = 0

\* AsyncClient::push
MioPush == \E request \in MioRequests : push(request)

\* AsyncClient::send_next: the head of the queue is taken, its get type is
\* pushed and the request is sent.
MioSendNext ==
    /\ ~panicked
    /\ lastOp' = "send_next"
    /\ IF requests # <<>>
       THEN LET head == PopFront(requests)
                w == send(Writer, head.item.req, head.item.id)
            IN /\ requests' = head.rest
               /\ args' = [args EXCEPT !.get_types = push_get(@, head.item.req)]
               /\ output' = w.buf
               /\ wire' = w.wire
               /\ sockFree' = w.free
               /\ result' = IF w.err = "Ok" THEN Ok(<<"unit">>) ELSE Err(<<WriteError(w)>>)
               /\ blocked' = (w.err # "Ok")
               /\ everBlocked' = (everBlocked \/ w.err # "Ok")
       ELSE /\ result' = Ok(<<"unit">>)
            /\ UNCHANGED <<requests, writeVars, blocked, everBlocked, args>>
    /\ UNCHANGED <<nonblocking, pushCount, readVars, pc>>

\* The server reads bytes from the transport.
MioServerReads ==
    /\ sockFree < PipeCap
    /\ \E n \in {SockCap, PipeCap} : sockFree' = Min(PipeCap, sockFree + n)
    /\ blocked' = FALSE
    /\ lastOp' = "server_reads"
    /\ UNCHANGED <<requests, output, wire, nonblocking, result, pushCount,
                   everBlocked, readVars, callVars>>

\* The positions of the line ends on the transport and the k-th line the
\* server reads.
LineEnds == {i \in 1..Len(wire) : wire[i].ch = LF}

LineEnd(k) ==
    IF k = 0 THEN 0
    ELSE CHOOSE i \in LineEnds : Cardinality({j \in LineEnds : j <= i}) = k

ServerLine(k) == Chars(SubSeq(wire, LineEnd(k - 1) + 1, LineEnd(k)))

OutputModuleReturned ==
    Frame(251, <<<<"e", "s">>>>, <<"O", "K", " ", "G", "E", "T", " ", "R", "E", "T", "U", "R", "N", "E", "D">>)

\* The answers of the server to a line: a GET is answered with 251 and the
\* value or with an SSIP error, SPEAK with 230 or an error, and a line that
\* is no command with an error.  `get` is the type of the value asked for.
MioAnswers(line) ==
    IF line = T_GET_RATE \o CRLF
    THEN {[frame |-> f, get |-> "IntegerType"] : f \in {RateReturned, ErrRateTooHigh}}
    ELSE IF line = T_GET_OUTPUT_MODULE \o CRLF
    THEN {[frame |-> f, get |-> "StringType"] : f \in {OutputModuleReturned, ErrRateTooHigh}}
    ELSE IF line = T_SPEAK \o CRLF
    THEN {[frame |-> f, get |-> "None"] : f \in {ReceivingData, ErrRateTooHigh}}
    ELSE {[frame |-> ErrRateTooHigh, get |-> "None"]}

\* The server has read the next line and writes its answer.
MioServerAnswers ==
    /\ answered < Cardinality(LineEnds)
    /\ Len(wire) - LineEnd(answered + 1) >= PipeCap - sockFree
    /\ Len(inflight) < MaxInflight
    /\ \E a \in MioAnswers(ServerLine(answered + 1)) :
          /\ inflight' = Append(inflight, a)
          /\ input' = input \o FrameBytes(a.frame)
    /\ answered' = answered + 1
    /\ lastOp' = "server_answers"
    /\ UNCHANGED <<queueVars, writeVars, nonblocking, result, afterSsip, panicked,
                   callVars>>

\* AsyncClient::receive_next after a readable event.
MioReceiveNext ==
    /\ ~panicked
    /\ inflight # <<>>
    /\ LET r == mio_receive_next(input, args.get_types) IN
          /\ result' = r.value
          /\ args' = [args EXCEPT !.get_types = r.get_types]
          /\ input' = r.rest
          /\ panicked' = (r.value = Panic)
    /\ inflight' = Tail(inflight)
    /\ lastOp' = "receive_next"
    /\ UNCHANGED <<queueVars, writeVars, nonblocking, afterSsip, answered, pc>>

GNext ==
    \/ MioPush
    \/ MioSendNext
    \/ MioServerReads
    \/ MioServerAnswers
    \/ MioReceiveNext

SpecG == GInit /\ [][GNext]_vars

\* The result of a 251 decoded with the type of the GET it answers.
TypedValue(answer) ==
    IF answer.get = "StringType"
    THEN Ok(<<"GetString", answer.frame.lines[1]>>)
    ELSE parse_i8(answer.frame.lines[1])

\* C35: in the mio client every 251 response finds get_types not empty and
\* is decoded with the type of the GET request it answers, whatever the
\* sends and receives before it, GETs answered with an SSIP error and sends
\* that returned NotReady included.
C35_GetDecodedWithItsType ==
    [][(lastOp' = "receive_next" /\ inflight # <<>>
          /\ Head(inflight).frame.code = OK_GET) =>
          /\ args.get_types # <<>>
          /\ Head(args.get_types) = Head(inflight).get
          /\ result' = TypedValue(Head(inflight))
      ]_vars

----------------------------------------------------------------------------
(* The popol example loop: a QueuedClient driven by level-triggered events *)

\* Request::SetName(ClientName::new("joe", "async")), pushed before the loop.
PopolSetName == <<"SetName">> \o ClientNameNew(<<"j", "o", "e">>, <<"a", "s", "y", "n", "c">>)

\* The lines read from the terminal: an empty line, one character, a text.
StdinTexts == {<<>>, <<"a">>, <<"h", "i">>}

\* State when the loop is entered: the three sources registered, the name
\* request queued, nothing written yet.  not_ready records that send_next
\* returned NotReady and no writable event was seen since.
PopolInit ==
    /\ requests = <<[req |-> PopolSetName, id |-> 1]>>
    /\ output = <<>>
    /\ wire = <<>>
    /\ sockFree = PipeCap
    /\ nonblocking = TRUE
    /\ result = <<"none">>
    /\ pushCount = 1
    /\ blocked = FALSE
    /\ everBlocked = FALSE
    /\ lastOp = "push"
    /\ args = [speech_writable |-> FALSE, registered |-> TRUE, send_requests |-> <<>>,
               events |-> <<>>, not_ready |-> FALSE]
    /\ pc = "Wait"
    /\ input = <<>>
    /\ afterSsip = FALSE
    /\ panicked = FALSE
    /\ inflight = <<>>
    /\ answered = 0

\* The sources popol reports: the input when bytes have arrived, the output
\* while it is registered and the transport has room, in the order of their
\* registration after the terminal.
ReadySources ==
    (IF input # <<>> THEN <<"SpeechIn">> ELSE <<>>)
      \o (IF args.registered /\ sockFree > 0 THEN <<"SpeechOut">> ELSE <<>>)

\* sources.wait
PopolWait ==
    /\ pc = "Wait"
    /\ \E typed \in BOOLEAN :
          /\ typed \/ ReadySources # <<>>
          /\ args' = [args EXCEPT !.events =
                        (IF typed THEN <<"Stdin">> ELSE <<>>) \o ReadySources]
    /\ pc' = "Events"
    /\ lastOp' = "wait"
    /\ UNCHANGED <<queueVars, writeVars, nonblocking, result, readVars>>

\* The place of the loop after an event was handled.
AfterEvent == IF Tail(args.events) = <<>> THEN "Send" ELSE "Events"

\* The Stdin arm: an empty line ends the program, one character is pushed
\* as SpeakChar, a longer text is kept and Speak is pushed.
PopolStdin ==
    /\ pc = "Events"
    /\ Head(args.events) = "Stdin"
    /\ \E text \in StdinTexts :
          IF Len(text) = 0
          THEN /\ pc' = "Exited"
               /\ result' = Ok(<<"unit">>)
               /\ UNCHANGED <<requests, pushCount, args>>
          ELSE /\ pushCount + Len(args.send_requests) + (IF Len(text) = 1 THEN 1 ELSE 2)
                    <= MaxPush
               /\ pushCount' = pushCount + 1
               /\ requests' = Append(requests,
                     [req |-> IF Len(text) = 1 THEN <<"SpeakChar", text[1]>> ELSE <<"Speak">>,
                      id |-> pushCount + 1])
               /\ args' = [args EXCEPT
                     !.events = Tail(@),
                     !.send_requests = IF Len(text) = 1 THEN @
                                       ELSE Append(@, <<"SendLine", text>>)]
               /\ pc' = AfterEvent
               /\ result' = <<"none">>
    /\ lastOp' = "stdin"
    /\ UNCHANGED <<writeVars, nonblocking, blocked, everBlocked, readVars>>

\* The SpeechIn arm: receive_next and the match on its result.
PopolSpeechIn ==
    /\ pc = "Events"
    /\ Head(args.events) = "SpeechIn"
    /\ LET r == receive(Available(input))
           v == r.value
           pushes == IsOk(v) /\ v[2][1] = "ReceivingData" /\ args.send_requests # <<>>
       IN /\ input' = Unread(r.rest)
          /\ result' = v
          /\ inflight' = IF inflight # <<>> /\ v \notin WouldBlockResults
                         THEN Tail(inflight) ELSE inflight
          /\ pc' = IF IsErr(v)
                   THEN IF v[2][1] = "Io" THEN "Failed"
                        ELSE IF v[2][1] = "Ssip" THEN AfterEvent ELSE "Panicked"
                   ELSE IF v = Panic THEN "Panicked"
                   ELSE IF v[2][1] \in {"MessageQueued", "ClientNameSet"} THEN AfterEvent
                   ELSE IF pushes THEN AfterEvent ELSE "Panicked"
          /\ panicked' = (pc' = "Panicked")
          /\ requests' = IF pushes
                         THEN Append(requests, [req |-> Head(args.send_requests),
                                                id |-> pushCount + 1])
                         ELSE requests
          /\ pushCount' = IF pushes THEN pushCount + 1 ELSE pushCount
          /\ args' = [args EXCEPT !.events = Tail(@),
                                  !.send_requests = IF pushes THEN Tail(@) ELSE @]
    /\ lastOp' = "receive_next"
    /\ UNCHANGED <<writeVars, nonblocking, blocked, everBlocked, afterSsip, answered>>

\* The SpeechOut arm: a writable event was seen.
PopolSpeechOut ==
    /\ pc = "Events"
    /\ Head(args.events) = "SpeechOut"
    /\ args' = [args EXCEPT !.events = Tail(@), !.speech_writable = TRUE,
                            !.not_ready = FALSE]
    /\ pc' = AfterEvent
    /\ lastOp' = "writable"
    /\ UNCHANGED <<queueVars, writeVars, nonblocking, result, readVars>>

\* `if speech_writable`: the output source is unregistered and the send loop
\* is entered.
PopolBeginSend ==
    /\ pc = "Send"
    /\ IF args.speech_writable
       THEN /\ args' = [args EXCEPT !.registered = FALSE]
            /\ pc' = "Loop"
       ELSE /\ args' = args
            /\ pc' = "Register"
    /\ lastOp' = "begin_send"
    /\ UNCHANGED <<queueVars, writeVars, nonblocking, result, readVars>>

\* One turn of the inner loop: send_next and the match on its result.
\* NotReady clears speech_writable and the loop goes on; only Ok(false)
\* leaves the loop.
PopolSendNext ==
    /\ pc = "Loop"
    /\ lastOp' = "send_next"
    /\ IF requests # <<>>
       THEN LET head == PopFront(requests)
                w == send(Writer, head.item.req, head.item.id)
            IN /\ requests' = head.rest
               /\ output' = w.buf
               /\ wire' = w.wire
               /\ sockFree' = w.free
               /\ IF w.err # "Ok"
                  THEN /\ result' = <<"Err", <<WriteError(w)>>>>
                       /\ blocked' = TRUE
                       /\ everBlocked' = TRUE
                       /\ args' = [args EXCEPT
                             !.speech_writable = (WriteError(w) # "NotReady") /\ @,
                             !.not_ready = (WriteError(w) = "NotReady") \/ @]
                       /\ pc' = IF WriteError(w) = "NotReady" THEN "Loop" ELSE "Failed"
                  ELSE /\ result' = <<"Ok", <<"bool", TRUE>>>>
                       /\ pc' = "Loop"
                       /\ UNCHANGED <<blocked, everBlocked, args>>
       ELSE /\ result' = <<"Ok", <<"bool", FALSE>>>>
            /\ pc' = "Register"
            /\ UNCHANGED <<requests, writeVars, blocked, everBlocked, args>>
    /\ UNCHANGED <<nonblocking, pushCount, readVars>>

\* `if !speech_writable && ssip_client.has_next()`: the output source is
\* registered again.
PopolRegister ==
    /\ pc = "Register"
    /\ args' = [args EXCEPT !.registered = @ \/ (~args.speech_writable /\ requests # <<>>)]
    /\ pc' = "Wait"
    /\ lastOp' = "register"
    /\ UNCHANGED <<queueVars, writeVars, nonblocking, result, readVars>>

\* The server reads bytes from the transport.
PopolServerReads ==
    /\ sockFree < PipeCap
    /\ \E n \in {SockCap, PipeCap} : sockFree' = Min(PipeCap, sockFree + n)
    /\ blocked' = FALSE
    /\ lastOp' = "server_reads"
    /\ UNCHANGED <<requests, output, wire, nonblocking, result, pushCount,
                   everBlocked, readVars, callVars>>

\* The answers of the server to the requests of the example.
PopolAnswers(question) ==
    IF question = ExpectedWire(PopolSetName) THEN {ClientNameSet}
    ELSE IF question = T_SPEAK \o CRLF THEN {ReceivingData, ErrRateTooHigh}
    ELSE IF \E text \in StdinTexts :
               Len(text) > 0 /\ question \in {ExpectedWire(<<"SpeakChar", text[1]>>),
                                               ExpectedWire(<<"SendLine", text>>)}
    THEN {MessageQueued}
    ELSE {}

\* The server has read a whole request and writes its answer.
PopolServerAnswers ==
    /\ sockFree = PipeCap
    /\ answered < Sent
    /\ Len(inflight) < MaxInflight
    /\ \E f \in PopolAnswers(Question(answered + 1)) :
          /\ input' = input \o FrameBytes(f)
          /\ inflight' = Append(inflight, [frame |-> f])
    /\ answered' = answered + 1
    /\ lastOp' = "server_answers"
    /\ UNCHANGED <<queueVars, writeVars, nonblocking, result, afterSsip, panicked,
                   callVars>>

PopolNext ==
    \/ PopolWait
    \/ PopolStdin
    \/ PopolSpeechIn
    \/ PopolSpeechOut
    \/ PopolBeginSend
    \/ PopolSendNext
    \/ PopolRegister
    \/ PopolServerReads
    \/ PopolServerAnswers

SpecPopol == PopolInit /\ [][PopolNext]_vars

\* C36: a driver loop respects the writable-edge rule: once send_next has
\* returned NotReady, the loop does not call send_next again until it has
\* seen a new writable event for the output.
C36_NoSendBeforeWritableEvent ==
    [][lastOp' = "send_next" => ~args.not_ready]_vars

----------------------------------------------------------------------------
(* What the operations of the queued client leave alone                    *)

\* The two halves of a status line, as they arrive.
StatusHalves == {<<"2", "0", "8", " ", "O", "K">>, <<" ", "X", CR, LF>>}

\* Every operation of QueuedClient, with the server taking bytes from the
\* transport and bytes of answers arriving.
FrameNext ==
    \/ NbPush
    \/ pop
    \/ last
    \/ has_next
    \/ send_next
    \/ receive_next
    \/ WritableEvent
    \/ \E piece \in StatusHalves : Arrive(piece)

SpecFrame == QInit /\ [][FrameNext]_vars

QueueOnlyOps == {"push", "pop", "last", "has_next"}

\* C37: push, pop, last and has_next write nothing to the transport and
\* read nothing from it; receive_next leaves the request queue unchanged;
\* send_next reads nothing from the input and changes the queue only by
\* removing its head.
C37_FrameConditions ==
    [][/\ lastOp' \in QueueOnlyOps => UNCHANGED <<output, wire, sockFree, input>>
       /\ lastOp' = "receive_next" => UNCHANGED requests
       /\ lastOp' = "send_next" =>
             /\ UNCHANGED input
             /\ requests' = requests \/ (requests # <<>> /\ requests' = Tail(requests))
      ]_vars

C37_Witness ==
    /\ lastOp = "send_next"
    /\ result = <<"Ok", <<"bool", TRUE>>>>
    /\ Len(requests) >= 1
    /\ input # <<>>
    /\ wire # <<>>

====
